---- MODULE Spec2Model ----
(***************************************************************************)
(* WrenJIT: a tracing JIT for the Wren interpreter.                        *)
(*                                                                         *)
(* The module models the trace cache (wren_jit.c), the trace recorder      *)
(* (wren_jit_trace.c, wren_jit_ir.c), the optimizer (wren_jit_opt.c and    *)
(* wren_jit_opt_guardelim.c), the shape of the generated code              *)
(* (wren_jit_codegen.c) and the exit protocol (wrenJitRestoreExit).        *)
(*                                                                         *)
(* Several specifications share the variables:                             *)
(*   SpecCache  - wrenJitStoreTrace / wrenJitLookup on the open-addressed  *)
(*                trace table, with table growth and allocation failure.   *)
(***************************************************************************)
EXTENDS Integers, Naturals, Sequences, FiniteSets, TLC

VARIABLES
    jit,        \* WrenJitState: traces, trace_capacity, trace_count, state,
                \* anchor_pc, traces_compiled, traces_aborted
    heap,       \* for every allocation id, how often it has been released
    obs,        \* what the last call did: its name, arguments and result
    lim,        \* the compile-time capacities of the build under analysis
    rec,        \* jit->recorder: the JitRecorder (present = FALSE when NULL)
    vm,         \* the interpreter: frame ip, stack, module variables
    ra          \* the RegAllocState of the compilation in progress, with the
                \* active set and the loop index of regAllocRun

vars == <<jit, heap, obs, lim, rec, vm, ra>>

\* The null pointer.  Program counters and allocation ids are positive.
NULL == 0

(***************************************************************************)
(* Bounds of the model.                                                    *)
(***************************************************************************)
\* log2 of the initial capacity of the trace table in the cache
\* specification (the source starts at 1024 = 2^10 entries).
CacheCapLog == 2
\* Number of wrenJitStoreTrace calls explored.
MaxStores == 6
\* Number of distinct anchor addresses handed to the cache.
NumAnchors == 5

RECURSIVE Pow2(_)
Pow2(n) == IF n = 0 THEN 1 ELSE 2 * Pow2(n - 1)

\* wren_jit.h: the initial capacity of the trace table.
JIT_MAX_TRACES == Pow2(CacheCapLog)

\* Anchor addresses: bytecode addresses are byte aligned, so some anchors
\* share the word that hash_pc keeps (pc >> 2) and collide.
AnchorAt(k) == 16 + 3 * k
Anchors == { AnchorAt(k) : k \in 0..(NumAnchors - 1) }

(***************************************************************************)
(* The trace cache.                                                        *)
(***************************************************************************)
\* hash_pc: (uint32_t)((pc >> 2) * 2654435761u).  2654435761 = 0x9E3779B1.
\* Every caller masks the result with trace_capacity - 1, so only the low
\* bits matter; the low 16 bits of the product are those of
\* (pc >> 2) * 0x79B1, which is what is computed here (the capacity stays
\* below 2^16 in the model).
hash_pc(pc) == ((pc \div 4) * 31153) % 65536

\* An empty table slot (calloc'ed memory).
EmptyTrace == [anchor_pc |-> NULL, code |-> NULL, snapshots |-> NULL,
               gc_roots |-> NULL]

\* x & mask for mask = capacity - 1, capacity a power of two.
MaskIdx(x, capacity) == x % capacity

RECURSIVE LookupProbe(_, _, _, _, _)
LookupProbe(traces, capacity, pc, idx, i) ==
    IF i >= capacity THEN NULL
    ELSE IF traces[idx].anchor_pc = NULL THEN NULL
    ELSE IF traces[idx].anchor_pc = pc THEN idx + 1
    ELSE LookupProbe(traces, capacity, pc, MaskIdx(idx + 1, capacity), i + 1)

\* wrenJitLookup: the table index (plus one) of the trace found, NULL if none.
wrenJitLookupSlot(j, pc) ==
    LookupProbe(j.traces, j.trace_capacity, pc,
                MaskIdx(hash_pc(pc), j.trace_capacity), 0)

\* wrenJitLookup: the trace found, or EmptyTrace for NULL.
wrenJitLookup(j, pc) ==
    LET s == wrenJitLookupSlot(j, pc)
    IN IF s = NULL THEN EmptyTrace ELSE j.traces[s - 1]

RECURSIVE FreeSlotFrom(_, _, _)
FreeSlotFrom(traces, capacity, idx) ==
    IF traces[idx].anchor_pc = NULL THEN idx
    ELSE FreeSlotFrom(traces, capacity, MaskIdx(idx + 1, capacity))

RECURSIVE Rehash(_, _, _, _, _)
Rehash(old, oldCap, new, newCap, i) ==
    IF i >= oldCap THEN new
    ELSE IF old[i].anchor_pc = NULL THEN Rehash(old, oldCap, new, newCap, i + 1)
    ELSE LET idx == FreeSlotFrom(new, newCap,
                                 MaskIdx(hash_pc(old[i].anchor_pc), newCap))
         IN Rehash(old, oldCap, [new EXCEPT ![idx] = old[i]], newCap, i + 1)

\* grow_trace_table: rehash every entry into a table of twice the capacity.
\* callocOk is the outcome of the calloc for the new table.
grow_trace_table(j, callocOk) ==
    IF ~callocOk THEN [ok |-> FALSE, jit |-> j]
    ELSE LET new_cap == j.trace_capacity * 2
             blank == [i \in 0..(new_cap - 1) |-> EmptyTrace]
         IN [ok |-> TRUE,
             jit |-> [j EXCEPT !.traces = Rehash(j.traces, j.trace_capacity,
                                                  blank, new_cap, 0),
                               !.trace_capacity = new_cap]]

RECURSIVE StoreProbe(_, _, _, _)
StoreProbe(traces, capacity, pc, idx) ==
    IF traces[idx].anchor_pc = NULL THEN [idx |-> idx, found |-> FALSE]
    ELSE IF traces[idx].anchor_pc = pc THEN [idx |-> idx, found |-> TRUE]
    ELSE StoreProbe(traces, capacity, pc, MaskIdx(idx + 1, capacity))

\* The allocations released by a replacement: code (if any), the snapshot
\* table and the root array of the old entry.
ReleasedBy(t) == (IF t.code # NULL THEN <<t.code>> ELSE <<>>)
                     \o <<t.snapshots, t.gc_roots>>

\* wrenJitStoreTrace.  Result: the new jit state, the sequence of
\* allocations handed to sljit_free_code / free, and whether the trace
\* was written into the table.
wrenJitStoreTrace(j, trace, callocOk) ==
    LET needGrow == j.trace_count * 10 >= j.trace_capacity * 7
        g == IF needGrow THEN grow_trace_table(j, callocOk)
             ELSE [ok |-> TRUE, jit |-> j]
    IN IF ~g.ok THEN [jit |-> j, freed |-> <<>>, stored |-> FALSE]
       ELSE LET j1 == g.jit
                p == StoreProbe(j1.traces, j1.trace_capacity, trace.anchor_pc,
                                MaskIdx(hash_pc(trace.anchor_pc),
                                        j1.trace_capacity))
            IN IF p.found
               THEN [jit |-> [j1 EXCEPT !.traces[p.idx] = trace],
                     freed |-> ReleasedBy(j1.traces[p.idx]),
                     stored |-> TRUE]
               ELSE [jit |-> [j1 EXCEPT !.traces[p.idx] = trace,
                                        !.trace_count = @ + 1,
                                        !.traces_compiled = @ + 1],
                     freed |-> <<>>,
                     stored |-> TRUE]

\* free / sljit_free_code on each allocation of a sequence.
RECURSIVE Release(_, _)
Release(h, ids) ==
    IF ids = <<>> THEN h
    ELSE Release([h EXCEPT ![Head(ids)] = @ + 1], Tail(ids))

\* wrenJitInit: an empty table of the given capacity, state IDLE.
wrenJitInit(capacity) ==
    [traces |-> [i \in 0..(capacity - 1) |-> EmptyTrace],
     trace_capacity |-> capacity,
     trace_count |-> 0,
     state |-> "IDLE",
     anchor_pc |-> NULL,
     traces_compiled |-> 0,
     traces_aborted |-> 0]

\* The k-th trace object built for the cache: three fresh allocations.
NewTrace(k, pc) == [anchor_pc |-> pc, code |-> 3 * k + 1,
                    snapshots |-> 3 * k + 2, gc_roots |-> 3 * k + 3]

AllocIds == 1..(3 * (MaxStores + 1))

(***************************************************************************)
(* The IR buffer (wren_jit_ir.h, wren_jit_ir.c).                           *)
(*                                                                         *)
(* SSA ids are 0-based array indices in the source; the node with id i is  *)
(* nodes[i + 1] here.  A write past the end of a fixed array is recorded   *)
(* in the field fault: in a build with assertions irEmit and               *)
(* irEmitSnapshot stop the process, otherwise the write lands outside the  *)
(* array; the action that made the call chooses between the two.           *)
(***************************************************************************)
IR_NONE == 65535

\* The capacities are compile-time constants of the source; every
\* specification fixes them in its initial state.
IR_MAX_NODES == lim.IR_MAX_NODES
IR_MAX_SNAPSHOTS == lim.IR_MAX_SNAPSHOTS
JIT_TRACE_MAX_SLOTS == lim.JIT_TRACE_MAX_SLOTS
JIT_TRACE_MAX_INSNS == lim.JIT_TRACE_MAX_INSNS
JIT_PRE_HEADER_SLOTS == lim.JIT_PRE_HEADER_SLOTS
JIT_MAX_SNAPSHOT_ENTRIES == lim.JIT_MAX_SNAPSHOT_ENTRIES
JIT_TRACE_MAX_CALL_DEPTH == 8

\* irBufferInit
irBufferInit == [nodes |-> <<>>, snapshots |-> <<>>, snapshot_entries |-> <<>>,
                 loop_header |-> 0, fault |-> "none"]

Fault(old, cond, what) == IF old = "none" /\ cond THEN what ELSE old

\* irEmit: append a node; the id of the new node is LastId of the result.
irEmit(buf, op, op1, op2, type) ==
    [buf EXCEPT !.nodes = Append(@, [op |-> op, op1 |-> op1, op2 |-> op2,
                                     type |-> type, imm |-> 0, field |-> 0,
                                     flags |-> {}]),
                !.fault = Fault(@, Len(buf.nodes) >= IR_MAX_NODES,
                                "irEmit")]

LastId(buf) == Len(buf.nodes) - 1

\* irEmit followed by an assignment to the immediate of the new node.
irEmitImm(buf, op, op1, op2, type, imm) ==
    [irEmit(buf, op, op1, op2, type) EXCEPT !.nodes[Len(buf.nodes) + 1].imm = imm]

\* The guard emitters set IR_FLAG_GUARD.
irEmitGuard(buf, op, val, op2, imm) ==
    [irEmitImm(buf, op, val, op2, "VOID", imm)
        EXCEPT !.nodes[Len(buf.nodes) + 1].flags = @ \cup {"GUARD"}]

irEmitConst(buf, num) == irEmitImm(buf, "CONST_NUM", IR_NONE, IR_NONE, "NUM", num)
irEmitConstBool(buf, val) ==
    irEmitImm(buf, "CONST_BOOL", IR_NONE, IR_NONE, "BOOL", IF val THEN 1 ELSE 0)
irEmitConstNull(buf) == irEmit(buf, "CONST_NULL", IR_NONE, IR_NONE, "VALUE")
irEmitConstObj(buf, ptr) == irEmitImm(buf, "CONST_OBJ", IR_NONE, IR_NONE, "PTR", ptr)
irEmitLoad(buf, slot) == irEmitImm(buf, "LOAD_STACK", IR_NONE, IR_NONE, "VALUE", slot)
irEmitStore(buf, slot, val) == irEmitImm(buf, "STORE_STACK", val, IR_NONE, "VOID", slot)
irEmitLoadField(buf, obj, fld) ==
    [irEmit(buf, "LOAD_FIELD", obj, IR_NONE, "VALUE")
        EXCEPT !.nodes[Len(buf.nodes) + 1].field = fld]
irEmitStoreField(buf, obj, fld, val) ==
    [irEmit(buf, "STORE_FIELD", obj, val, "VOID")
        EXCEPT !.nodes[Len(buf.nodes) + 1].field = fld]
irEmitGuardNum(buf, val, snapshot) == irEmitGuard(buf, "GUARD_NUM", val, IR_NONE, snapshot)
\* irEmitGuardClass keeps the snapshot id in op2 and the class in imm.ptr.
irEmitGuardClass(buf, val, classPtr, snapshot) ==
    irEmitGuard(buf, "GUARD_CLASS", val, snapshot, classPtr)
irEmitGuardTrue(buf, val, snapshot) == irEmitGuard(buf, "GUARD_TRUE", val, IR_NONE, snapshot)
irEmitGuardFalse(buf, val, snapshot) == irEmitGuard(buf, "GUARD_FALSE", val, IR_NONE, snapshot)
irEmitBox(buf, val) == irEmit(buf, "BOX_NUM", val, IR_NONE, "VALUE")
irEmitUnbox(buf, val) == irEmit(buf, "UNBOX_NUM", val, IR_NONE, "NUM")

\* The id the next emitted node (snapshot) gets: buf->count
\* (buf->snapshot_count).
NextId(buf) == Len(buf.nodes)
NextSnap(buf) == Len(buf.snapshots)

\* irEmitSnapshot: the id of the new snapshot is NextSnap of the argument.
irEmitSnapshot(buf, resume_pc, stack_depth) ==
    irEmitImm([buf EXCEPT
                !.snapshots = Append(@, [resume_pc |-> resume_pc,
                                         num_entries |-> 0,
                                         entry_start |-> Len(buf.snapshot_entries),
                                         stack_depth |-> stack_depth]),
                !.fault = Fault(@, Len(buf.snapshots) >= IR_MAX_SNAPSHOTS,
                                "irEmitSnapshot")],
              "SNAPSHOT", IR_NONE, IR_NONE, "VOID", NextSnap(buf))

LastSnap(buf) == Len(buf.snapshots) - 1

\* irSnapshotAddEntry: no capacity check; the pool has IR_MAX_NODES entries.
irSnapshotAddEntry(buf, snapshot_id, slot, ssa_ref) ==
    [buf EXCEPT !.snapshot_entries = Append(@, [slot |-> slot, ssa_ref |-> ssa_ref]),
                !.snapshots[snapshot_id + 1].num_entries = @ + 1,
                !.fault = Fault(@, Len(buf.snapshot_entries) >= IR_MAX_NODES,
                                "irSnapshotAddEntry")]

irEmitLoopHeader(buf) ==
    [irEmit(buf, "LOOP_HEADER", IR_NONE, IR_NONE, "VOID")
        EXCEPT !.loop_header = NextId(buf)]

irEmitLoopBack(buf) == irEmit(buf, "LOOP_BACK", buf.loop_header, IR_NONE, "VOID")


(***************************************************************************)
(* Wren values.  A Value is a number, a boolean, null or a Range object.   *)
(***************************************************************************)
NumVal(n) == [t |-> "num", v |-> n, to |-> 0, incl |-> 0]
BoolVal(b) == [t |-> "bool", v |-> IF b THEN 1 ELSE 0, to |-> 0, incl |-> 0]
NullVal == [t |-> "null", v |-> 0, to |-> 0, incl |-> 0]
RangeVal(from, to, incl) == [t |-> "range", v |-> from, to |-> to,
                             incl |-> IF incl THEN 1 ELSE 0]
IS_NUM(val) == val.t = "num"
IS_RANGE(val) == val.t = "range"
\* wrenIsFalsyValue: false and null are falsy.
wrenIsFalsyValue(val) == val.t = "null" \/ (val.t = "bool" /\ val.v = 0)

\* stackStart[i]; slots the model does not hold read as null.
StackAt(stack, i) == IF i \in DOMAIN stack THEN stack[i] ELSE NullVal

(***************************************************************************)
(* The recorder (wren_jit_trace.c, wren_jit_trace_widen.c).                *)
(***************************************************************************)
NoRecorder == [present |-> FALSE]

\* No register allocation is in progress.
NoRegAlloc == [present |-> FALSE]

slotSet(r, slot, ssa_id) ==
    IF slot < 0 \/ slot >= JIT_TRACE_MAX_SLOTS THEN r
    ELSE [r EXCEPT !.slot_map[slot] = ssa_id,
                   !.slot_live[slot] = TRUE,
                   !.num_slots = IF slot + 1 > @ THEN slot + 1 ELSE @]

slotGet(r, slot) ==
    IF slot >= 0 /\ slot < JIT_TRACE_MAX_SLOTS /\ r.slot_live[slot]
    THEN r.slot_map[slot] ELSE IR_NONE

\* r->slot_live[idx] = false, written without a range check.
slotKill(r, idx) ==
    IF idx >= 0 /\ idx < JIT_TRACE_MAX_SLOTS
    THEN [r EXCEPT !.slot_live[idx] = FALSE]
    ELSE [r EXCEPT !.fault = Fault(@, TRUE, "slot_live")]

\* The push idiom: slotSet(r, r->stack_top, ssa); r->stack_top++.
Push(r, ssa) == [slotSet(r, r.stack_top, ssa) EXCEPT !.stack_top = @ + 1]

RECURSIVE SnapshotEntries(_, _, _, _)
SnapshotEntries(r, buf, snap_id, i) ==
    IF i >= r.stack_top THEN buf
    ELSE IF i >= JIT_TRACE_MAX_SLOTS
         THEN \* slot_live[i] is read past the end of the array
              [buf EXCEPT !.fault = Fault(@, TRUE, "slot_live")]
         ELSE SnapshotEntries(r,
                  IF r.slot_live[i]
                  THEN irSnapshotAddEntry(buf, snap_id, i, r.slot_map[i])
                  ELSE buf,
                  snap_id, i + 1)

\* emitSnapshot: one entry per live slot below stack_top.
emitSnapshot(r, resume_pc) ==
    [r EXCEPT !.ir = SnapshotEntries(r, irEmitSnapshot(r.ir, resume_pc, r.stack_top),
                                     NextSnap(r.ir), 0)]

numMethodToIROp(symbol) ==
    CASE symbol = "+(_)" -> "ADD" [] symbol = "-(_)" -> "SUB"
      [] symbol = "*(_)" -> "MUL" [] symbol = "/(_)" -> "DIV"
      [] symbol = "%(_)" -> "MOD" [] symbol = "<(_)" -> "LT"
      [] symbol = ">(_)" -> "GT" [] symbol = "<=(_)" -> "LTE"
      [] symbol = ">=(_)" -> "GTE" [] symbol = "==(_)" -> "EQ"
      [] symbol = "!=(_)" -> "NEQ" [] OTHER -> "NOP"

isComparisonOp(op) == op \in {"LT", "GT", "LTE", "GTE", "EQ", "NEQ"}

numUnaryToIROp(symbol) == IF symbol = "-" THEN "NEG" ELSE "NOP"

\* jitRecorderStart: reset the recorder, emit the pre-header NOPs, the loop
\* header and one LOAD_STACK per interpreter slot; state becomes RECORDING.
RECURSIVE EmitNops(_, _)
EmitNops(buf, k) ==
    IF k <= 0 THEN buf
    ELSE EmitNops(irEmit(buf, "NOP", IR_NONE, IR_NONE, "VOID"), k - 1)

RECURSIVE LoadSlots(_, _, _)
LoadSlots(r, s, num_slots) ==
    IF s >= num_slots THEN r
    ELSE LoadSlots(slotSet([r EXCEPT !.ir = irEmitLoad(@, s)], s, NextId(r.ir)),
                   s + 1, num_slots)

jitRecorderStart(j, anchor_pc, num_slots) ==
    LET n == IF num_slots > JIT_TRACE_MAX_SLOTS THEN JIT_TRACE_MAX_SLOTS
             ELSE num_slots
        r0 == [present |-> TRUE,
               ir |-> irEmitLoopHeader(EmitNops(irBufferInit,
                                                JIT_PRE_HEADER_SLOTS)),
               anchor_pc |-> anchor_pc,
               slot_map |-> [s \in 0..(JIT_TRACE_MAX_SLOTS - 1) |-> 0],
               slot_live |-> [s \in 0..(JIT_TRACE_MAX_SLOTS - 1) |-> FALSE],
               num_slots |-> n, stack_top |-> n, instr_count |-> 0,
               call_depth |-> 0, aborted |-> FALSE, abort_reason |-> "",
               fault |-> "none"]
    IN [jit |-> [j EXCEPT !.state = "RECORDING", !.anchor_pc = anchor_pc],
        rec |-> LoadSlots(r0, 0, n)]

\* jitRecorderAbort
jitRecorderAbort(j, r, reason) ==
    IF ~r.present THEN [jit |-> j, rec |-> r, ret |-> FALSE]
    ELSE [jit |-> [j EXCEPT !.state = "IDLE", !.traces_aborted = @ + 1],
          rec |-> [r EXCEPT !.aborted = TRUE, !.abort_reason = reason],
          ret |-> FALSE]

\* jitRecorderGet: FALSE stands for NULL.
jitRecorderGet(r) == r.present /\ ~r.aborted

\* A step that keeps recording.
Continue(j, r) == [jit |-> j, rec |-> r, ret |-> FALSE]

\* r with a node appended to its buffer.
WithIr(r, buf) == [r EXCEPT !.ir = buf]

\* slotGet, with a LOAD_STACK emitted (and optionally entered in the slot
\* map) when the slot is not tracked.  Result: recorder and SSA id.
Loaded(r1, slot, enter, id) ==
    [rec |-> IF enter THEN slotSet(r1, slot, id) ELSE r1, ssa |-> id]

GetOrLoad(r, slot, enter) ==
    IF slotGet(r, slot) # IR_NONE THEN [rec |-> r, ssa |-> slotGet(r, slot)]
    ELSE Loaded(WithIr(r, irEmitLoad(r.ir, slot)), slot, enter, NextId(r.ir))

\* Two slots in a row: slot1 first, then slot2 in the recorder that results.
SecondLoaded(g2, ssa1) == [rec |-> g2.rec, ssa1 |-> ssa1, ssa2 |-> g2.ssa]
AfterFirstLoad(g1, slot2, enter) ==
    SecondLoaded(GetOrLoad(g1.rec, slot2, enter), g1.ssa)
GetOrLoad2(r, slot1, slot2, enter) ==
    AfterFirstLoad(GetOrLoad(r, slot1, enter), slot2, enter)

\* The address of module variable var_idx (module->variables.data + var_idx).
VarPtr(var_idx) == 512 + var_idx
\* vm->rangeClass
RangeClass == 7

\* The common tail of the range inliners and of CALL_1: pop the argument.
PopArg(r) == slotKill([r EXCEPT !.stack_top = @ - 1], r.stack_top - 1)

\* The nodes of inlineRangeIterate, n being the id of the first:
\* guard_num, unbox, step, add, limit, compare, box_bool, guard_true, box.
RangeIterateNodes(buf, n, step, limit, cmp_op, snap, arg_ssa) ==
    irEmitBox(
      irEmitGuardTrue(
        irEmit(
          irEmit(
            irEmitConst(
              irEmit(
                irEmitConst(
                  irEmitUnbox(irEmitGuardNum(buf, arg_ssa, snap), arg_ssa),
                  step),
                "ADD", n + 1, n + 2, "NUM"),
              limit),
            cmp_op, n + 3, n + 4, "BOOL"),
          "BOX_BOOL", n + 5, IR_NONE, "VALUE"),
        n + 6, snap),
      n + 3)

\* inlineRangeIterate: direction, limit and inclusiveness are read from
\* the receiver at recording time and baked into the trace as constants.
inlineRangeIterate(r, recv_val, recv_slot, snap, arg_ssa) ==
    LET ascending == recv_val.v <= recv_val.to
        inclusive == recv_val.incl = 1
        cmp_op == IF ascending THEN (IF inclusive THEN "LTE" ELSE "LT")
                  ELSE (IF inclusive THEN "GTE" ELSE "GT")
    IN slotSet(PopArg(WithIr(r, RangeIterateNodes(r.ir, NextId(r.ir),
                                    IF ascending THEN 1 ELSE -1, recv_val.to,
                                    cmp_op, snap, arg_ssa))),
               recv_slot, NextId(r.ir) + 8)

\* inlineRangeIteratorValue: the iterator is the value.
inlineRangeIteratorValue(r, recv_slot, snap, arg_ssa) ==
    slotSet(PopArg([r EXCEPT !.ir = irEmitGuardNum(r.ir, arg_ssa, snap)]),
            recv_slot, arg_ssa)

\* jitTryWidenCall1 once receiver and argument have SSA ids: guard the
\* receiver's class, then inline.
WidenInline(r2, recv_val, recv_slot, snap, arg_ssa, symbol) ==
    IF symbol = "iterate(_)"
    THEN inlineRangeIterate(r2, recv_val, recv_slot, snap, arg_ssa)
    ELSE inlineRangeIteratorValue(r2, recv_slot, snap, arg_ssa)

WidenGuarded(g, recv_val, recv_slot, snap, symbol) ==
    WidenInline([g.rec EXCEPT !.ir = irEmitGuardClass(@, g.ssa1, RangeClass, snap)],
                recv_val, recv_slot, snap, g.ssa2, symbol)

\* jitTryWidenCall1: ok = FALSE when the call is not widened.
jitTryWidenCall1(r, stack, symbol, ip) ==
    LET recv_slot == r.stack_top - 2
        arg_slot == r.stack_top - 1
        recv_val == StackAt(stack, recv_slot)
    IN IF r.stack_top < 2 \/ ~IS_RANGE(recv_val)
          \/ symbol \notin {"iterate(_)", "iteratorValue(_)"}
       THEN [ok |-> FALSE, rec |-> r]
       ELSE [ok |-> TRUE,
             rec |-> WidenGuarded(GetOrLoad2(emitSnapshot(r, ip), recv_slot,
                                             arg_slot, TRUE),
                                  recv_val, recv_slot, NextSnap(r.ir), symbol)]

\* CALL_0 on a Num receiver: snapshot, guard, unbox, operate, box.
Call0Nodes(g, uop, recv_slot, snap, n) ==
    slotSet([g.rec EXCEPT !.ir =
                irEmitBox(irEmit(irEmitUnbox(irEmitGuardNum(@, g.ssa, snap), g.ssa),
                                 uop, n + 1, IR_NONE, "NUM"),
                          n + 2)],
            recv_slot, n + 3)

Call0Loaded(g, uop, recv_slot, snap) ==
    Call0Nodes(g, uop, recv_slot, snap, NextId(g.rec.ir))

RecCall0Num(r, uop, ip) ==
    Call0Loaded(GetOrLoad(emitSnapshot(r, ip), r.stack_top - 1, TRUE), uop,
                r.stack_top - 1, NextSnap(r.ir))

\* CALL_1 on a Num receiver: snapshot, two guards, two unboxes, the
\* operation, and box_bool for a comparison or box_num otherwise.
Call1Nodes(g, binop, recv_slot, snap, n) ==
    slotSet(PopArg([g.rec EXCEPT !.ir =
                irEmit(irEmit(irEmitUnbox(irEmitUnbox(
                                  irEmitGuardNum(irEmitGuardNum(@, g.ssa1, snap),
                                                 g.ssa2, snap),
                                  g.ssa1), g.ssa2),
                              binop, n + 2, n + 3,
                              IF isComparisonOp(binop) THEN "BOOL" ELSE "NUM"),
                       IF isComparisonOp(binop) THEN "BOX_BOOL" ELSE "BOX_NUM",
                       n + 4, IR_NONE, "VALUE")]),
            recv_slot, n + 5)

Call1Loaded(g, binop, recv_slot, snap) ==
    Call1Nodes(g, binop, recv_slot, snap, NextId(g.rec.ir))

RecCall1Num(r, binop, ip) ==
    Call1Loaded(GetOrLoad2(emitSnapshot(r, ip), r.stack_top - 2,
                           r.stack_top - 1, TRUE),
                binop, r.stack_top - 2, NextSnap(r.ir))

\* A guard on the observed truthiness of ssa, against snapshot snap.
GuardObserved(r, falsy, ssa, snap) ==
    [r EXCEPT !.ir = IF falsy THEN irEmitGuardFalse(@, ssa, snap)
                     ELSE irEmitGuardTrue(@, ssa, snap)]

\* JUMP_IF: pop the condition, snapshot the path not followed, guard.
JumpIfLoaded(g, slot, taken, I) ==
    GuardObserved(emitSnapshot(slotKill(g.rec, slot),
                               IF taken THEN I.next ELSE I.target),
                  taken, g.ssa, NextSnap(g.rec.ir))

RecJumpIf(r, I, stack) ==
    JumpIfLoaded(GetOrLoad([r EXCEPT !.stack_top = @ - 1], r.stack_top - 1, FALSE),
                 r.stack_top - 1,
                 wrenIsFalsyValue(StackAt(stack, r.stack_top - 1)), I)

\* AND (keepIf = falsy keeps TOS and jumps) and OR (truthy keeps TOS).
AndOrGuarded(r2, jumps) ==
    IF jumps THEN r2
    ELSE slotKill([r2 EXCEPT !.stack_top = @ - 1], r2.stack_top - 1)

AndOrLoaded(g, falsy, jumps, I) ==
    AndOrGuarded(GuardObserved(emitSnapshot(g.rec, IF jumps THEN I.next
                                                   ELSE I.target),
                               falsy, g.ssa, NextSnap(g.rec.ir)),
                 jumps)

RecAndOr(r, I, stack, isAnd) ==
    LET falsy == wrenIsFalsyValue(StackAt(stack, r.stack_top - 1))
    IN AndOrLoaded(GetOrLoad(r, r.stack_top - 1, FALSE), falsy,
                   IF isAnd THEN falsy ELSE ~falsy, I)

\* The push idiom with a node emitted just before: buf is r's buffer with
\* that node appended.
PushNode(r, buf) == Push(WithIr(r, buf), NextId(r.ir))
PushLoaded(g) == Push(g.rec, g.ssa)

\* The bodies of the cases that follow a GetOrLoad.
RecLoadFieldThis(g, fld) ==
    PushNode(g.rec, irEmitLoadField(g.rec.ir, g.ssa, fld))

RecStoreFieldThis(j, g, top, fld) ==
    IF g.rec.stack_top <= 0
    THEN jitRecorderAbort(j, g.rec, "stack underflow at STORE_FIELD_THIS")
    ELSE IF slotGet(g.rec, top - 1) = IR_NONE
    THEN jitRecorderAbort(j, g.rec, "untracked value at STORE_FIELD_THIS")
    ELSE Continue(j, [g.rec EXCEPT !.ir =
             irEmitStoreField(@, g.ssa, fld, slotGet(g.rec, top - 1))])

RecStoreModuleVar(j, g, I, env) ==
    IF I.arg >= env.nvars
    THEN jitRecorderAbort(j, g.rec, "module var index out of range")
    ELSE Continue(j, [g.rec EXCEPT !.ir =
             irEmitImm(@, "STORE_MODULE_VAR", g.ssa, IR_NONE, "VOID",
                       VarPtr(I.arg))])

RecLoadField(g, slot, fld) ==
    slotSet([g.rec EXCEPT !.ir = irEmitLoadField(@, g.ssa, fld)], slot,
            NextId(g.rec.ir))

RecStoreField(g, fld) ==
    PopArg([g.rec EXCEPT !.ir = irEmitStoreField(@, g.ssa1, fld, g.ssa2)])

RecWidened(j, r, w) ==
    IF w.ok THEN Continue(j, w.rec)
    ELSE jitRecorderAbort(j, r, "unsupported CALL_1 receiver type")

\* The switch of jitRecorderStep.  I is the instruction at ip: opcode op,
\* operand arg (slot, field, constant or variable index), method symbol
\* sym, its address pc, the address next of the following instruction and
\* the branch target.  env is what the recorder reads from the VM: the
\* frame's stack, the function's constants and the number of module
\* variables.
RecDispatch(j, r, I, env) ==
    LET op == I.op
        top == r.stack_top
    IN
    CASE op \in {"LOAD_LOCAL"} ->
           Continue(j, PushLoaded(GetOrLoad(r, I.arg, TRUE)))
      [] op = "STORE_LOCAL" ->
           IF top <= 0
           THEN jitRecorderAbort(j, r, "stack underflow at STORE_LOCAL")
           ELSE IF slotGet(r, top - 1) = IR_NONE
           THEN jitRecorderAbort(j, r, "untracked value at STORE_LOCAL")
           ELSE Continue(j, slotSet([r EXCEPT !.ir =
                                        irEmitStore(@, I.arg, slotGet(r, top - 1))],
                                    I.arg, slotGet(r, top - 1)))
      [] op = "LOAD_FIELD_THIS" ->
           Continue(j, RecLoadFieldThis(GetOrLoad(r, 0, TRUE), I.arg))
      [] op = "STORE_FIELD_THIS" ->
           RecStoreFieldThis(j, GetOrLoad(r, 0, TRUE), top, I.arg)
      [] op = "CONSTANT" ->
           IF I.arg >= Len(env.constants)
           THEN jitRecorderAbort(j, r, "constant index out of range")
           ELSE LET c == env.constants[I.arg + 1]
                IN Continue(j, PushNode(r,
                       IF IS_NUM(c) THEN irEmitConst(r.ir, c.v)
                       ELSE IF c.t = "null" THEN irEmitConstNull(r.ir)
                       ELSE IF c.t = "bool" THEN irEmitConstBool(r.ir, c.v = 1)
                       ELSE irEmitConstObj(r.ir, 64 + I.arg)))
      [] op = "NULL" -> Continue(j, PushNode(r, irEmitConstNull(r.ir)))
      [] op \in {"FALSE", "TRUE"} ->
           Continue(j, PushNode(r, irEmitConstBool(r.ir, op = "TRUE")))
      [] op = "POP" ->
           IF top <= 0 THEN jitRecorderAbort(j, r, "stack underflow at POP")
           ELSE Continue(j, PopArg(r))
      [] op = "CALL_0" ->
           IF top < 1 THEN jitRecorderAbort(j, r, "stack underflow at CALL_0")
           ELSE IF IS_NUM(StackAt(env.stack, top - 1))
           THEN IF numUnaryToIROp(I.sym) = "NOP"
                THEN jitRecorderAbort(j, r, "unsupported Num unary method")
                ELSE Continue(j, RecCall0Num(r, numUnaryToIROp(I.sym), I.pc))
           ELSE \* jitTryWidenCall0 always declines
                jitRecorderAbort(j, r, "unsupported CALL_0 receiver type")
      [] op = "CALL_1" ->
           IF top < 2 THEN jitRecorderAbort(j, r, "stack underflow at CALL_1")
           ELSE IF IS_NUM(StackAt(env.stack, top - 2))
           THEN IF numMethodToIROp(I.sym) = "NOP"
                THEN jitRecorderAbort(j, r, "unsupported Num binary method")
                ELSE Continue(j, RecCall1Num(r, numMethodToIROp(I.sym), I.pc))
           ELSE RecWidened(j, r, jitTryWidenCall1(r, env.stack, I.sym, I.pc))
      [] op = "CALL_2" ->
           jitRecorderAbort(j, r, "unsupported CALL_N with N >= 2")
      [] op = "JUMP" -> Continue(j, r)
      [] op = "JUMP_IF" ->
           IF top <= 0 THEN jitRecorderAbort(j, r, "stack underflow at JUMP_IF")
           ELSE Continue(j, RecJumpIf(r, I, env.stack))
      [] op \in {"AND", "OR"} ->
           IF top <= 0
           THEN jitRecorderAbort(j, r, IF op = "AND" THEN "stack underflow at AND"
                                       ELSE "stack underflow at OR")
           ELSE Continue(j, RecAndOr(r, I, env.stack, op = "AND"))
      [] op = "LOOP" ->
           IF I.target = r.anchor_pc
           THEN [jit |-> [j EXCEPT !.state = "COMPILING"],
                 rec |-> [r EXCEPT !.ir = irEmitLoopBack(@)],
                 ret |-> TRUE]
           ELSE jitRecorderAbort(j, r, "loop target is not anchor (nested loop)")
      [] op = "LOAD_MODULE_VAR" ->
           IF I.arg >= env.nvars
           THEN jitRecorderAbort(j, r, "module var index out of range")
           ELSE Continue(j, PushNode(r,
                    irEmitImm(r.ir, "LOAD_MODULE_VAR", I.arg, IR_NONE, "VALUE",
                              VarPtr(I.arg))))
      [] op = "STORE_MODULE_VAR" ->
           IF top <= 0
           THEN jitRecorderAbort(j, r, "stack underflow at STORE_MODULE_VAR")
           ELSE RecStoreModuleVar(j, GetOrLoad(r, top - 1, FALSE), I, env)
      [] op = "LOAD_FIELD" ->
           IF top < 1 THEN jitRecorderAbort(j, r, "stack underflow at LOAD_FIELD")
           ELSE Continue(j, RecLoadField(GetOrLoad(r, top - 1, TRUE), top - 1,
                                         I.arg))
      [] op = "STORE_FIELD" ->
           IF top < 2 THEN jitRecorderAbort(j, r, "stack underflow at STORE_FIELD")
           ELSE Continue(j, RecStoreField(GetOrLoad2(r, top - 1, top - 2, FALSE),
                                          I.arg))
      [] op = "RETURN" ->
           IF r.call_depth > 0
           THEN Continue(j, [r EXCEPT !.call_depth = @ - 1])
           ELSE jitRecorderAbort(j, r, "returning out of trace root")
      [] OTHER -> jitRecorderAbort(j, r, "unsupported opcode")

\* The call-depth test that follows the switch.
RecDepthCheck(d) ==
    IF ~d.rec.aborted /\ ~d.ret /\ d.rec.call_depth > JIT_TRACE_MAX_CALL_DEPTH
    THEN jitRecorderAbort(d.jit, d.rec, "call depth too deep")
    ELSE d

\* jitRecorderStep with the length test off by one (>= for >).
jitRecorderStepOffByOne(j, r, I, env) ==
    IF ~r.present \/ r.aborted THEN [jit |-> j, rec |-> r, ret |-> FALSE]
    ELSE IF r.instr_count + 1 >= JIT_TRACE_MAX_INSNS
    THEN jitRecorderAbort(j, [r EXCEPT !.instr_count = @ + 1], "trace too long")
    ELSE RecDepthCheck(RecDispatch(j, [r EXCEPT !.instr_count = @ + 1], I, env))

\* jitRecorderStep
jitRecorderStep(j, r, I, env) ==
    IF ~r.present \/ r.aborted THEN [jit |-> j, rec |-> r, ret |-> FALSE]
    ELSE IF r.instr_count + 1 > JIT_TRACE_MAX_INSNS
    THEN jitRecorderAbort(j, [r EXCEPT !.instr_count = @ + 1], "trace too long")
    ELSE RecDepthCheck(RecDispatch(j, [r EXCEPT !.instr_count = @ + 1], I, env))


InitCache ==
    /\ jit = wrenJitInit(JIT_MAX_TRACES)
    /\ lim = [spec |-> "cache"]
    /\ rec = [present |-> FALSE]
    /\ vm = [ip |-> NULL]
    /\ ra = NoRegAlloc
    /\ heap = [a \in AllocIds |-> 0]
    /\ obs = [op |-> "init", calls |-> 0, last |-> [p \in Anchors |-> NULL],
              dropped |-> {}]

\* A call wrenJitStoreTrace(jit, trace) with a non-null anchor.
StoreTraceCall(pc, callocOk) ==
    /\ obs.calls < MaxStores
    /\ LET t == NewTrace(obs.calls, pc)
           r == wrenJitStoreTrace(jit, t, callocOk)
       IN /\ jit' = r.jit
          /\ heap' = Release(heap, r.freed)
          /\ obs' = [op |-> "store", calls |-> obs.calls + 1,
                     last |-> [obs.last EXCEPT ![pc] = t.code],
                     dropped |-> IF r.stored THEN obs.dropped \ {pc}
                                 ELSE obs.dropped \cup {pc},
                     pc |-> pc, pre |-> jit, freed |-> r.freed,
                     stored |-> r.stored]
    /\ UNCHANGED <<lim, rec, vm, ra>>

NextCache == \E pc \in Anchors, callocOk \in BOOLEAN : StoreTraceCall(pc, callocOk)

SpecCache == InitCache /\ [][NextCache]_vars

\* C5: after any sequence of wrenJitStoreTrace calls, wrenJitLookup(pc)
\* returns the trace most recently passed to wrenJitStoreTrace for pc, and
\* NULL for every pc that was never passed to it.
C5_LookupReturnsLastStored ==
    lim.spec = "cache" =>
        \A pc \in Anchors :
            IF obs.last[pc] = NULL
            THEN wrenJitLookupSlot(jit, pc) = NULL
            ELSE wrenJitLookup(jit, pc).code = obs.last[pc]

\* The anchor of the last wrenJitStoreTrace call was in the cache before it.
ReplacingStore ==
    /\ lim.spec = "cache"
    /\ obs.op = "store"
    /\ wrenJitLookupSlot(obs.pre, obs.pc) # NULL

\* C6: a wrenJitStoreTrace call whose anchor is already cached releases
\* the old entry's code, snapshot table and root array exactly once, leaves
\* exactly one entry for the anchor (the new trace) and leaves trace_count
\* unchanged.
C6_ReplaceReleasesOldOnce ==
    ReplacingStore =>
        LET old == wrenJitLookup(obs.pre, obs.pc)
        IN /\ heap[old.code] = 1
           /\ heap[old.snapshots] = 1
           /\ heap[old.gc_roots] = 1
           /\ Cardinality({i \in DOMAIN jit.traces :
                              jit.traces[i].anchor_pc = obs.pc}) = 1
           /\ wrenJitLookup(jit, obs.pc).code = obs.last[obs.pc]
           /\ jit.trace_count = obs.pre.trace_count

(***************************************************************************)
(* The optimizer (wren_jit_opt.c).  Every pass rewrites the buffer in      *)
(* place; a loop of the source over the node array is a recursion over    *)
(* the index that carries the buffer.                                      *)
(***************************************************************************)
Count(buf) == Len(buf.nodes)
Node(buf, id) == buf.nodes[id + 1]
SetNode(buf, id, n) == [buf EXCEPT !.nodes[id + 1] = n]
\* &buf->nodes[id] for an operand; an operand that names no node reads as NOP.
NodeOr(buf, id) ==
    IF id >= 0 /\ id < Count(buf) THEN Node(buf, id)
    ELSE [op |-> "NOP", op1 |-> IR_NONE, op2 |-> IR_NONE, type |-> "VOID",
          imm |-> 0, field |-> 0, flags |-> {}]

isArith(op) == op \in {"ADD", "SUB", "MUL", "DIV", "MOD"}
isCmp(op) == op \in {"LT", "LTE", "GT", "GTE", "EQ", "NEQ"}
isGuard(op) == op \in {"GUARD_NUM", "GUARD_CLASS", "GUARD_TRUE", "GUARD_FALSE",
                       "GUARD_NOT_NULL"}
isConst(op) == op \in {"CONST_NUM", "CONST_BOOL", "CONST_NULL", "CONST_OBJ",
                       "CONST_INT"}
hasSideEffect(n) ==
    n.op \in {"STORE_STACK", "STORE_FIELD", "STORE_MODULE_VAR", "GUARD_NUM",
              "GUARD_CLASS", "GUARD_TRUE", "GUARD_FALSE", "GUARD_NOT_NULL",
              "SIDE_EXIT", "SNAPSHOT", "CALL_C", "CALL_WREN", "LOOP_HEADER",
              "LOOP_BACK"}

\* killNode: NOP, no operands, zeroed immediate, flag DEAD.
killNode(n) == [n EXCEPT !.op = "NOP", !.op1 = IR_NONE, !.op2 = IR_NONE,
                         !.imm = 0, !.field = 0, !.flags = @ \cup {"DEAD"}]

KillAt(buf, id) == SetNode(buf, id, killNode(Node(buf, id)))

\* replaceUses without its second loop: the snapshot entries keep the old id.
replaceUsesInNodesOnly(buf, old, rep) ==
    [buf EXCEPT
       !.nodes = [k \in DOMAIN buf.nodes |->
                    LET n == buf.nodes[k]
                    IN IF n.op = "NOP" THEN n
                       ELSE [n EXCEPT !.op1 = IF @ = old THEN rep ELSE @,
                                      !.op2 = IF @ = old THEN rep ELSE @]]]

\* replaceUses: op1 and op2 of every node that is not a NOP, whatever the
\* field means for the node's opcode, and every snapshot entry.
replaceUses(buf, old, rep) ==
    [buf EXCEPT
       !.nodes = [k \in DOMAIN buf.nodes |->
                    LET n == buf.nodes[k]
                    IN IF n.op = "NOP" THEN n
                       ELSE [n EXCEPT !.op1 = IF @ = old THEN rep ELSE @,
                                      !.op2 = IF @ = old THEN rep ELSE @]],
       !.snapshot_entries =
           [k \in DOMAIN buf.snapshot_entries |->
              LET e == buf.snapshot_entries[k]
              IN IF e.ssa_ref = old THEN [e EXCEPT !.ssa_ref = rep] ELSE e]]

ReplaceAndKill(buf, id, rep) == KillAt(replaceUses(buf, id, rep), id)

\* for (i = lo; i < hi; i++) st = Step(st, i): a loop of the source that
\* carries its state from one index to the next.  w holds the state and
\* the index; the n iterations that remain are run as two halves, which
\* keeps their order.
RECURSIVE LoopRun(_, _, _, _)
LoopRun(Step(_, _), w, hi, n) ==
    IF w.i >= hi THEN w
    ELSE IF n = 1 THEN [st |-> Step(w.st, w.i), i |-> w.i + 1]
    ELSE LoopRun(Step, LoopRun(Step, w, hi, n \div 2), hi, n - (n \div 2))

ForEach(Step(_, _), st, lo, hi) ==
    LoopRun(Step, [st |-> st, i |-> lo], hi, hi - lo).st

\* The lowest id whose node satisfies a test, IR_NONE if there is none.
FirstOp(buf, op) ==
    LET ids == {i \in 0..(Count(buf) - 1) : Node(buf, i).op = op}
    IN IF ids = {} THEN IR_NONE
       ELSE CHOOSE i \in ids : \A k \in ids : i <= k

findLoopHeader(buf) ==
    IF buf.loop_header < Count(buf)
       /\ Node(buf, buf.loop_header).op = "LOOP_HEADER"
    THEN buf.loop_header
    ELSE FirstOp(buf, "LOOP_HEADER")

findLoopBack(buf) == FirstOp(buf, "LOOP_BACK")

\* Pass 1, phase 1: BOX(UNBOX x) and UNBOX(BOX x) become x, UNBOX of a
\* numeric constant becomes the constant.
BoxUnboxStep1(buf, i) ==
    LET n == Node(buf, i)
        src == NodeOr(buf, n.op1)
        pair == /\ n.op1 # IR_NONE
                /\ <<n.op, src.op>> \in
                      {<<"BOX_NUM", "UNBOX_NUM">>, <<"UNBOX_NUM", "BOX_NUM">>,
                       <<"BOX_OBJ", "UNBOX_OBJ">>, <<"UNBOX_OBJ", "BOX_OBJ">>}
        konst == /\ n.op1 # IR_NONE
                 /\ n.op = "UNBOX_NUM" /\ src.op = "CONST_NUM"
    IN IF pair THEN ReplaceAndKill(buf, i, src.op1)
       ELSE IF konst THEN ReplaceAndKill(buf, i, n.op1)
       ELSE buf

BoxUnboxPhase1(buf, i) == ForEach(BoxUnboxStep1, buf, i, Count(buf))

\* useCounts / unboxUseCounts / inSnapshot, computed once before phase 2.
UseCount(buf, id, onlyUnbox) ==
    LET users == {k \in DOMAIN buf.nodes :
                     /\ buf.nodes[k].op # "NOP"
                     /\ onlyUnbox => buf.nodes[k].op = "UNBOX_NUM"}
    IN Cardinality({k \in users : buf.nodes[k].op1 = id})
       + Cardinality({k \in users : buf.nodes[k].op2 = id})

InSnapshot(buf, id) ==
    \E k \in DOMAIN buf.snapshot_entries : buf.snapshot_entries[k].ssa_ref = id

\* The inner loop of phase 2: every UNBOX_NUM of node st.box is replaced by
\* the raw input of the box.
BypassUnbox(st, j) ==
    IF Node(st.buf, j).op = "UNBOX_NUM" /\ Node(st.buf, j).op1 = st.box
    THEN [st EXCEPT !.buf = ReplaceAndKill(@, j, st.raw)]
    ELSE st

BypassUnboxes(buf, i, rawInput, j) ==
    ForEach(BypassUnbox, [buf |-> buf, box |-> i, raw |-> rawInput], j,
            Count(buf)).buf

\* Pass 1, phase 2: a BOX_NUM used only by UNBOX_NUM and by no snapshot is
\* bypassed.  The use counts are those of the buffer phase 2 starts from.
BoxUnboxStep2(st, i) ==
    LET n == Node(st.buf, i)
    IN IF \/ n.op # "BOX_NUM" \/ n.op1 = IR_NONE
          \/ UseCount(st.base, i, FALSE) = 0
          \/ InSnapshot(st.base, i)
          \/ UseCount(st.base, i, FALSE) # UseCount(st.base, i, TRUE)
       THEN st
       ELSE [st EXCEPT !.buf = KillAt(BypassUnboxes(@, i, n.op1, 0), i)]

BoxUnboxPhase2(base, buf, i) ==
    ForEach(BoxUnboxStep2, [base |-> base, buf |-> buf], i, Count(buf)).buf

irOptBoxUnboxElim(buf) ==
    LET b1 == BoxUnboxPhase1(buf, 0) IN BoxUnboxPhase2(b1, b1, 0)

\* Pass 2: a guard of the same kind on the same SSA value is killed; the
\* knowledge is reset at the loop header.
NoGuards == [num |-> {}, true |-> {}, false |-> {}, notnull |-> {}, class |-> {}]

RedundantGuardStep(st, i) ==
    LET n == Node(st.buf, i)
        val == n.op1
        killed == [st EXCEPT !.buf = KillAt(@, i)]
    IN IF n.op = "LOOP_HEADER" THEN [st EXCEPT !.g = NoGuards]
       ELSE IF n.op = "NOP" \/ n.op1 = IR_NONE THEN st
       ELSE CASE n.op = "GUARD_NUM" ->
                   IF val \in st.g.num THEN killed
                   ELSE [st EXCEPT !.g.num = @ \cup {val}]
              [] n.op = "GUARD_TRUE" ->
                   IF val \in st.g.true THEN killed
                   ELSE [st EXCEPT !.g.true = @ \cup {val}]
              [] n.op = "GUARD_FALSE" ->
                   IF val \in st.g.false THEN killed
                   ELSE [st EXCEPT !.g.false = @ \cup {val}]
              [] n.op = "GUARD_NOT_NULL" ->
                   IF val \in st.g.notnull THEN killed
                   ELSE [st EXCEPT !.g.notnull = @ \cup {val}]
              [] n.op = "GUARD_CLASS" ->
                   IF n.imm # NULL /\ <<val, n.imm>> \in st.g.class
                   THEN killed
                   ELSE [st EXCEPT !.g.class =
                            {c \in @ : c[1] # val} \cup {<<val, n.imm>>}]
              [] OTHER -> st

RedundantGuardScan(buf, g, i) ==
    ForEach(RedundantGuardStep, [buf |-> buf, g |-> g], i, Count(buf)).buf

irOptRedundantGuardElim(buf) == RedundantGuardScan(buf, NoGuards, 0)

\* Numbers are integers in the model; the programs it runs use +, -, * and
\* the comparisons, for which the double arithmetic of the source is exact.
ArithResult(op, a, b) ==
    CASE op = "ADD" -> a + b
      [] op = "SUB" -> a - b
      [] op = "MUL" -> a * b
      [] op = "DIV" -> IF b = 0 THEN 0 ELSE a \div b
      [] op = "MOD" -> IF b = 0 THEN 0 ELSE a % b

CmpResult(op, a, b) ==
    CASE op = "LT" -> a < b
      [] op = "LTE" -> a <= b
      [] op = "GT" -> a > b
      [] op = "GTE" -> a >= b
      [] op = "EQ" -> a = b
      [] op = "NEQ" -> a # b

\* Pass 3, first loop: a PHI of twice the same value is that value.
PhiStep(buf, i) ==
    LET n == Node(buf, i)
        a == NodeOr(buf, n.op1)
        b == NodeOr(buf, n.op2)
    IN IF /\ n.op = "PHI" /\ n.op1 # IR_NONE /\ n.op2 # IR_NONE
          /\ \/ n.op1 = n.op2
             \/ a.op = "CONST_NUM" /\ b.op = "CONST_NUM" /\ a.imm = b.imm
       THEN ReplaceAndKill(buf, i, n.op1)
       ELSE buf

PhiPropagate(buf, i) == ForEach(PhiStep, buf, i, Count(buf))

\* n->op = IR_CONST_NUM etc.: the node is overwritten in place.
AsConstNum(n, num) == [n EXCEPT !.op = "CONST_NUM", !.type = "NUM", !.imm = num,
                                !.op1 = IR_NONE, !.op2 = IR_NONE]

\* Pass 3, second loop, one node.
FoldNode(buf, i) ==
    LET n == Node(buf, i)
        a == NodeOr(buf, n.op1)
        b == NodeOr(buf, n.op2)
        both == n.op1 # IR_NONE /\ n.op2 # IR_NONE
        aNum == a.op = "CONST_NUM"
        bNum == b.op = "CONST_NUM"
    IN CASE n.op = "NEG" /\ n.op1 # IR_NONE /\ aNum ->
              SetNode(buf, i, [n EXCEPT !.op = "CONST_NUM", !.type = "NUM",
                                        !.imm = 0 - a.imm, !.op1 = IR_NONE])
         [] isArith(n.op) /\ both /\ aNum /\ bNum ->
              SetNode(buf, i, AsConstNum(n, ArithResult(n.op, a.imm, b.imm)))
         [] isArith(n.op) /\ both /\ ~(aNum /\ bNum) ->
              IF n.op \in {"ADD", "SUB"} /\ bNum /\ b.imm = 0
              THEN ReplaceAndKill(buf, i, n.op1)
              ELSE IF n.op = "ADD" /\ aNum /\ a.imm = 0
              THEN ReplaceAndKill(buf, i, n.op2)
              ELSE IF n.op = "MUL" /\ bNum /\ b.imm = 1
              THEN ReplaceAndKill(buf, i, n.op1)
              ELSE IF n.op = "MUL" /\ aNum /\ a.imm = 1
              THEN ReplaceAndKill(buf, i, n.op2)
              ELSE IF n.op = "MUL" /\ ((bNum /\ b.imm = 0) \/ (aNum /\ a.imm = 0))
              THEN SetNode(buf, i, AsConstNum(n, 0))
              ELSE IF n.op = "DIV" /\ bNum /\ b.imm = 1
              THEN ReplaceAndKill(buf, i, n.op1)
              ELSE buf
         [] isCmp(n.op) /\ both /\ aNum /\ bNum ->
              SetNode(buf, i, [n EXCEPT !.op = "CONST_BOOL", !.type = "BOOL",
                                        !.imm = IF CmpResult(n.op, a.imm, b.imm)
                                                THEN 1 ELSE 0,
                                        !.op1 = IR_NONE, !.op2 = IR_NONE])
         [] n.op = "GUARD_TRUE" /\ n.op1 # IR_NONE
               /\ a.op = "CONST_BOOL" /\ a.imm # 0 -> KillAt(buf, i)
         [] n.op = "GUARD_FALSE" /\ n.op1 # IR_NONE
               /\ a.op = "CONST_BOOL" /\ a.imm = 0 -> KillAt(buf, i)
         [] n.op = "GUARD_NUM" /\ n.op1 # IR_NONE
               /\ (isArith(a.op) \/ a.op \in {"NEG", "CONST_NUM", "CONST_INT",
                                              "UNBOX_NUM"}) -> KillAt(buf, i)
         [] OTHER -> buf

FoldAll(buf, i) == ForEach(FoldNode, buf, i, Count(buf))

irOptConstPropFold(buf) == FoldAll(PhiPropagate(buf, 0), 0)

\* Pass 4.  gvnEqual compares op, type, op1, op2 and the whole immediate.
GvnKey(n) == <<n.op, n.type, n.op1, n.op2, n.imm, n.field>>
gvnEqual(a, b) == GvnKey(a) = GvnKey(b)

\* The hash table holds node ids; an entry is found again by a node with
\* the hash it was inserted under and is compared by its present contents.
GvnStep(st, i) ==
    LET n == Node(st.buf, i)
        hits == {e \in st.table : /\ e.key = GvnKey(n)
                                  /\ Node(st.buf, e.id).op # "NOP"
                                  /\ gvnEqual(Node(st.buf, e.id), n)}
    IN IF n.op = "NOP" \/ hasSideEffect(n) \/ n.op = "PHI" THEN st
       ELSE IF hits = {}
            THEN [st EXCEPT !.table = @ \cup {[id |-> i, key |-> GvnKey(n)]}]
            ELSE [st EXCEPT !.buf =
                     ReplaceAndKill(@, i,
                         (CHOOSE x \in hits : \A y \in hits : x.id <= y.id).id)]

GvnScan(buf, table, i) ==
    ForEach(GvnStep, [buf |-> buf, table |-> table], i, Count(buf)).buf

irOptGVN(buf) == GvnScan(buf, {}, 0)

\* Pass 5, marking: one sweep over (header, back).
OperandInvariant(buf, header, o) ==
    \/ o = IR_NONE \/ o >= Count(buf) \/ o < header
    \/ "INVARIANT" \in Node(buf, o).flags
    \/ isConst(Node(buf, o).op)

LicmMarkStep(st, i) ==
    LET n == Node(st.buf, i)
    IN IF \/ n.op = "NOP" \/ hasSideEffect(n) \/ n.op = "PHI"
          \/ "INVARIANT" \in n.flags
          \/ ~OperandInvariant(st.buf, st.header, n.op1)
          \/ ~OperandInvariant(st.buf, st.header, n.op2)
       THEN st
       ELSE [st EXCEPT !.buf =
                SetNode(@, i, [n EXCEPT !.flags = @ \cup {"INVARIANT"}])]

LicmMarkSweep(buf, header, back, i) ==
    ForEach(LicmMarkStep, [buf |-> buf, header |-> header], i, back).buf

RECURSIVE LicmMark(_, _, _)
LicmMark(buf, header, back) ==
    LET b == LicmMarkSweep(buf, header, back, header + 1)
    IN IF b = buf THEN buf ELSE LicmMark(b, header, back)

\* The first NOP before the header, IR_NONE if none is left.
FreePreHeaderSlot(buf, header) ==
    LET free == {j \in 0..(header - 1) : Node(buf, j).op = "NOP"}
    IN IF free = {} THEN IR_NONE
       ELSE CHOOSE j \in free : \A k \in free : j <= k

\* buf->nodes[j] = *n with flag HOISTED.
HoistCopy(buf, i, j) ==
    SetNode(buf, j, [Node(buf, i) EXCEPT !.flags = @ \cup {"HOISTED"}])

LicmMoveStep(st, i) ==
    LET n == Node(st.buf, i)
        j == FreePreHeaderSlot(st.buf, st.header)
    IN IF "INVARIANT" \notin n.flags \/ "HOISTED" \in n.flags \/ j = IR_NONE
       THEN st
       ELSE [st EXCEPT !.buf = ReplaceAndKill(HoistCopy(@, i, j), i, j)]

LicmMove(buf, header, back, i) ==
    ForEach(LicmMoveStep, [buf |-> buf, header |-> header], i, back).buf

irOptLICM(buf) ==
    LET header == findLoopHeader(buf)
        back == findLoopBack(buf)
    IN IF header = IR_NONE \/ back = IR_NONE THEN buf
       ELSE LicmMove(LicmMark(buf, header, back), header, back, header + 1)

\* Pass 6: a guard in the loop whose operand id is below the header is
\* copied into a free pre-header slot and killed in the loop.
GuardHoistStep(st, i) ==
    LET n == Node(st.buf, i)
        j == FreePreHeaderSlot(st.buf, st.header)
    IN IF \/ ~isGuard(n.op) \/ "HOISTED" \in n.flags \/ n.op1 = IR_NONE
          \/ n.op1 >= st.header \/ j = IR_NONE
       THEN st
       ELSE [st EXCEPT !.buf = KillAt(HoistCopy(@, i, j), i)]

GuardHoistScan(buf, header, back, i) ==
    ForEach(GuardHoistStep, [buf |-> buf, header |-> header], i, back).buf

irOptGuardHoist(buf) ==
    LET header == findLoopHeader(buf)
        back == findLoopBack(buf)
    IN IF header = IR_NONE \/ back = IR_NONE THEN buf
       ELSE GuardHoistScan(buf, header, back, header + 1)

\* Pass 7.  The numbers of the model are integers; the reciprocal of an
\* integer c other than 1 and -1 is written c + RecipBase (and back), so
\* that 1.0 / (1.0 / c) is c again, as it is for the powers of two.
RecipBase == 1000

IsRecip(v) == v > RecipBase \div 2

Recip(v) ==
    IF v \in {1, -1} THEN v
    ELSE IF IsRecip(v) THEN v - RecipBase ELSE v + RecipBase

\* The exponent of a positive integer power of two, -1 for any other number.
RECURSIVE isPow2Double(_)
isPow2Double(v) ==
    IF v <= 0 \/ IsRecip(v) THEN -1
    ELSE IF v = 1 THEN 0
    ELSE IF v % 2 # 0 THEN -1
    ELSE LET e == isPow2Double(v \div 2) IN IF e < 0 THEN -1 ELSE e + 1

\* rhs->op = IR_CONST_INT; rhs->type = IR_TYPE_INT; rhs->imm.i64 = val
AsConstInt(n, val) == [n EXCEPT !.op = "CONST_INT", !.type = "INT", !.imm = val]

\* x * 2 => x + x; x * 2^k => x << k and x % 2^k => x & (2^k - 1) for an
\* INT-typed node; x / C => x * (1/C), the reciprocal being written into the
\* constant node itself, whoever else uses it.
StrengthReduceNode(buf, i) ==
    LET n == Node(buf, i)
        lhs == NodeOr(buf, n.op1)
        rhs == NodeOr(buf, n.op2)
    IN CASE n.op = "MUL" /\ n.op1 # IR_NONE /\ n.op2 # IR_NONE
               /\ rhs.op = "CONST_NUM" /\ rhs.imm = 2 ->
              SetNode(buf, i, [n EXCEPT !.op = "ADD", !.op2 = n.op1])
         [] n.op = "MUL" /\ n.op1 # IR_NONE /\ n.op2 # IR_NONE
               /\ ~(rhs.op = "CONST_NUM" /\ rhs.imm = 2)
               /\ lhs.op = "CONST_NUM" /\ lhs.imm = 2 ->
              SetNode(buf, i, [n EXCEPT !.op = "ADD", !.op1 = n.op2])
         [] n.op = "MUL" /\ n.op1 # IR_NONE /\ n.op2 # IR_NONE
               /\ ~(rhs.op = "CONST_NUM" /\ rhs.imm = 2)
               /\ ~(lhs.op = "CONST_NUM" /\ lhs.imm = 2)
               /\ rhs.op = "CONST_NUM" /\ n.type = "INT"
               /\ isPow2Double(rhs.imm) > 0 ->
              SetNode(SetNode(buf, n.op2, AsConstInt(rhs, isPow2Double(rhs.imm))),
                      i, [n EXCEPT !.op = "LSHIFT", !.type = "INT"])
         [] n.op = "DIV" /\ n.op2 # IR_NONE /\ rhs.op = "CONST_NUM"
               /\ rhs.imm # 0 ->
              SetNode(SetNode(buf, n.op2, [rhs EXCEPT !.imm = Recip(rhs.imm)]),
                      i, [n EXCEPT !.op = "MUL"])
         [] n.op = "MOD" /\ n.op2 # IR_NONE /\ n.type = "INT"
               /\ rhs.op = "CONST_NUM" /\ isPow2Double(rhs.imm) >= 0 ->
              SetNode(SetNode(buf, n.op2, AsConstInt(rhs, rhs.imm - 1)),
                      i, [n EXCEPT !.op = "BAND", !.type = "INT"])
         [] OTHER -> buf

StrengthReduceAll(buf, i) == ForEach(StrengthReduceNode, buf, i, Count(buf))

irOptStrengthReduce(buf) == StrengthReduceAll(buf, 0)

\* Pass 8 returns at once when the loop holds no PHI induction variable
\* (ivCount == 0); the recorder emits no PHI and no earlier pass creates one.
HasPhi(buf) == \E k \in DOMAIN buf.nodes : buf.nodes[k].op = "PHI"
irOptBoundsCheckElim(buf) == buf

\* Pass 9 (B): a LOAD_FIELD is replaced by the value of the nearest earlier
\* STORE_FIELD on the same object and field; the backward scan stops at a
\* call or at another store to the object.  Part (A) needs a CALL_C node,
\* which the recorder never emits.
RECURSIVE ForwardedStore(_, _, _, _)
ForwardedStore(buf, obj, fld, j) ==
    IF j < 0 THEN IR_NONE
    ELSE LET st == Node(buf, j)
         IN IF st.op = "STORE_FIELD" /\ st.op1 = obj /\ st.field = fld
            THEN j
            ELSE IF st.op \in {"CALL_C", "CALL_WREN"}
                    \/ (st.op = "STORE_FIELD" /\ st.op1 = obj)
                 THEN IR_NONE
                 ELSE ForwardedStore(buf, obj, fld, j - 1)

StoreLoadStep(buf, i) ==
    LET n == Node(buf, i)
        j == IF n.op = "LOAD_FIELD" /\ n.op1 # IR_NONE
             THEN ForwardedStore(buf, n.op1, n.field, i - 1)
             ELSE IR_NONE
    IN IF j = IR_NONE THEN buf
       ELSE ReplaceAndKill(buf, i, Node(buf, j).op2)

StoreLoadForward(buf, i) == ForEach(StoreLoadStep, buf, i, Count(buf))

irOptEscapeAnalysis(buf) == StoreLoadForward(buf, 0)

\* Pass 10: mark-sweep.  A STORE_STACK that carries the DEAD flag is no root.
IsDceRoot(n) ==
    \/ n.op = "STORE_STACK" /\ "DEAD" \notin n.flags
    \/ n.op \in {"STORE_FIELD", "STORE_MODULE_VAR", "SIDE_EXIT", "LOOP_BACK",
                 "LOOP_HEADER", "CALL_C", "CALL_WREN", "SNAPSHOT", "PHI"}
    \/ isGuard(n.op)

DceRoots(buf) ==
    {i \in 0..(Count(buf) - 1) : Node(buf, i).op # "NOP" /\ IsDceRoot(Node(buf, i))}
    \cup {buf.snapshot_entries[k].ssa_ref : k \in DOMAIN buf.snapshot_entries}

RECURSIVE DceClosure(_, _)
DceClosure(buf, live) ==
    LET ops == UNION {{Node(buf, i).op1, Node(buf, i).op2} : i \in live}
        more == {o \in ops : o # IR_NONE /\ o < Count(buf)} \ live
    IN IF more = {} THEN live ELSE DceClosure(buf, live \cup more)

\* irOptDCE without the propagation loop: only the roots are marked live.
irOptDCEMarksRootsOnly(buf) ==
    LET live == {r \in DceRoots(buf) : r # IR_NONE /\ r < Count(buf)}
    IN [buf EXCEPT !.nodes =
          [k \in DOMAIN buf.nodes |->
             IF buf.nodes[k].op # "NOP" /\ (k - 1) \notin live
             THEN killNode(buf.nodes[k]) ELSE buf.nodes[k]]]

irOptDCE(buf) ==
    LET live == DceClosure(buf, {r \in DceRoots(buf) :
                                    r # IR_NONE /\ r < Count(buf)})
    IN [buf EXCEPT !.nodes =
          [k \in DOMAIN buf.nodes |->
             IF buf.nodes[k].op # "NOP" /\ (k - 1) \notin live
             THEN killNode(buf.nodes[k]) ELSE buf.nodes[k]]]

(***************************************************************************)
(* Pass 11 (wren_jit_opt_guardelim.c).                                     *)
(***************************************************************************)
Dead(n) == "DEAD" \in n.flags

writtenValueIsNumeric(buf, val_id) ==
    IF val_id = IR_NONE \/ val_id >= Count(buf) THEN FALSE
    ELSE LET v == Node(buf, val_id)
         IN v.type = "NUM" \/ v.op = "BOX_NUM" \/ v.op = "CONST_NUM"

\* A load is "provably numeric" when every live store to the same variable
\* or slot writes a numeric value; a load without any store qualifies.
provenNumericLoad(buf, i) ==
    LET n == Node(buf, i)
        storeOp == IF n.op = "LOAD_MODULE_VAR" THEN "STORE_MODULE_VAR"
                   ELSE "STORE_STACK"
    IN /\ ~Dead(n)
       /\ n.op \in {"LOAD_MODULE_VAR", "LOAD_STACK"}
       /\ \A j \in 0..(Count(buf) - 1) :
             LET st == Node(buf, j)
             IN (~Dead(st) /\ st.op = storeOp /\ st.imm = n.imm)
                    => writtenValueIsNumeric(buf, st.op1)

\* The nodes pre-marked as guarded numbers.
PreGuardedNum(buf) ==
    {i \in 0..(Count(buf) - 1) :
        LET n == Node(buf, i)
        IN /\ ~Dead(n)
           /\ \/ n.op \in {"ADD", "SUB", "MUL", "DIV", "MOD", "NEG",
                           "CONST_NUM", "UNBOX_NUM", "UNBOX_INT"}
              \/ n.type \in {"NUM", "INT"}
              \/ provenNumericLoad(buf, i)}

\* The kill of phase A keeps the immediate.
PhaseAKill(buf, i) ==
    SetNode(buf, i, [Node(buf, i) EXCEPT !.op = "NOP", !.op1 = IR_NONE,
                                         !.op2 = IR_NONE,
                                         !.flags = @ \cup {"DEAD"}])

PhaseAStep(st, i) ==
    LET n == Node(st.buf, i)
        val == n.op1
        killed == [st EXCEPT !.buf = PhaseAKill(@, i)]
    IN IF Dead(n) \/ n.op1 = IR_NONE THEN st
       ELSE CASE n.op = "GUARD_NUM" ->
                   IF val \in st.g.num THEN killed
                   ELSE [st EXCEPT !.g.num = @ \cup {val}]
              [] n.op = "GUARD_TRUE" ->
                   IF val \in st.g.true THEN killed
                   ELSE [st EXCEPT !.g.true = @ \cup {val}]
              [] n.op = "GUARD_FALSE" ->
                   IF val \in st.g.false THEN killed
                   ELSE [st EXCEPT !.g.false = @ \cup {val}]
              [] OTHER -> st

PhaseAScan(buf, g, i) ==
    ForEach(PhaseAStep, [buf |-> buf, g |-> g], i, Count(buf)).buf

phaseA(buf) ==
    PhaseAScan(buf, [NoGuards EXCEPT !.num = PreGuardedNum(buf)], 0)

\* Phase B: the first LOOP_HEADER and the last LOOP_BACK, Count(buf) if none.
PhaseBHeader(buf) ==
    IF FirstOp(buf, "LOOP_HEADER") = IR_NONE THEN Count(buf)
    ELSE FirstOp(buf, "LOOP_HEADER")

PhaseBBack(buf) ==
    LET ids == {i \in 0..(Count(buf) - 1) : Node(buf, i).op = "LOOP_BACK"}
    IN IF ids = {} THEN Count(buf)
       ELSE CHOOSE i \in ids : \A k \in ids : k <= i

loadedInLoop(buf, slot) ==
    /\ PhaseBHeader(buf) < Count(buf) /\ PhaseBBack(buf) < Count(buf)
    /\ \E k \in PhaseBHeader(buf)..PhaseBBack(buf) :
          LET m == Node(buf, k)
          IN ~Dead(m) /\ m.op = "LOAD_STACK" /\ m.imm = slot

\* Whether a call follows node i before the next snapshot, side exit or
\* loop back (dead nodes are skipped).
RECURSIVE needs_live_stack(_, _)
needs_live_stack(buf, k) ==
    IF k >= Count(buf) THEN FALSE
    ELSE LET m == Node(buf, k)
         IN IF Dead(m) THEN needs_live_stack(buf, k + 1)
            ELSE IF m.op \in {"CALL_WREN", "CALL_C"} THEN TRUE
            ELSE IF m.op \in {"SNAPSHOT", "SIDE_EXIT", "LOOP_BACK"} THEN FALSE
            ELSE needs_live_stack(buf, k + 1)

PhaseBStep(buf, i) ==
    LET n == Node(buf, i)
    IN IF \/ Dead(n) \/ n.op # "STORE_STACK"
          \/ loadedInLoop(buf, n.imm)
          \/ needs_live_stack(buf, i + 1)
       THEN buf
       ELSE SetNode(buf, i, [n EXCEPT !.flags = @ \cup {"DEAD"}])

PhaseBScan(buf, i) == ForEach(PhaseBStep, buf, i, Count(buf))

phaseB(buf) == PhaseBScan(buf, 0)

irOptGuardElim(buf) == IF Count(buf) = 0 THEN buf ELSE phaseB(phaseA(buf))

(***************************************************************************)
(* Pass 12 (wren_jit_opt_iv.c) retypes PHI induction variables and the     *)
(* arithmetic and comparisons whose two operands are INT-typed or integer  *)
(* constants.  IVInferenceApplies tells whether a buffer holds such a      *)
(* node; on a buffer that holds none the pass changes nothing.             *)
(***************************************************************************)
IntOperand(buf, id) ==
    /\ id # IR_NONE /\ id < Count(buf)
    /\ (Node(buf, id).type = "INT" \/ Node(buf, id).op = "CONST_NUM")

IVInferenceApplies(buf) ==
    \/ HasPhi(buf)
    \/ \E i \in 0..(Count(buf) - 1) :
          LET n == Node(buf, i)
          IN /\ ~Dead(n)
             /\ n.op \in {"ADD", "SUB", "MUL", "LT", "GT", "LTE", "GTE", "EQ", "NEQ"}
             /\ IntOperand(buf, n.op1) /\ IntOperand(buf, n.op2)

\* v == (double)(int64_t)v within +-2^52; a reciprocal is no integer.
isIntegerConstNum(n) == n.op = "CONST_NUM" /\ ~IsRecip(n.imm)

isIntType(buf, id) ==
    id # IR_NONE /\ id < Count(buf) /\ Node(buf, id).type = "INT"

\* Steps 1 and 2: a live PHI whose pre-loop value is an integer constant or
\* is typed INT or NUM, and whose back-edge value is ADD or SUB of the PHI
\* and an integer constant or INT-typed step, is retyped INT.
IvBackEdge(buf, i, back) ==
    LET bn == Node(buf, back)
        step_id == IF bn.op1 = i THEN bn.op2 ELSE bn.op1
    IN /\ bn.op \in {"ADD", "SUB"}
       /\ bn.op1 # IR_NONE /\ bn.op2 # IR_NONE
       /\ bn.op1 < Count(buf) /\ bn.op2 < Count(buf)
       /\ (bn.op1 = i \/ bn.op2 = i)
       /\ (isIntegerConstNum(Node(buf, step_id)) \/ isIntType(buf, step_id))

IvTagsPhi(buf, i) ==
    LET phi == Node(buf, i)
    IN /\ ~Dead(phi) /\ phi.op = "PHI" /\ phi.type # "INT"
       /\ phi.op1 # IR_NONE /\ phi.op2 # IR_NONE
       /\ phi.op1 < Count(buf) /\ phi.op2 < Count(buf)
       /\ \/ isIntegerConstNum(Node(buf, phi.op1))
          \/ Node(buf, phi.op1).type \in {"INT", "NUM"}
       /\ IvBackEdge(buf, i, phi.op2)

IvTagStep(buf, i) ==
    IF IvTagsPhi(buf, i)
    THEN SetNode(buf, i, [Node(buf, i) EXCEPT !.type = "INT"])
    ELSE buf

\* An operand counts as integer when it is INT-typed or an integer constant.
IvIntOperand(buf, id) ==
    isIntType(buf, id) \/ isIntegerConstNum(NodeOr(buf, id))

\* a->op = IR_CONST_INT; a->imm.i64 = (int64_t)a->imm.num; a->type = INT
IvPromoteConst(buf, id) ==
    IF isIntegerConstNum(Node(buf, id))
    THEN SetNode(buf, id, AsConstInt(Node(buf, id), Node(buf, id).imm))
    ELSE buf

IvRetype(buf, i) ==
    LET n == Node(buf, i)
        b2 == IvPromoteConst(IvPromoteConst(buf, n.op1), n.op2)
    IN SetNode(b2, i, [Node(b2, i) EXCEPT !.type = "INT"])

\* Step 3: ADD, SUB and MUL of two integer operands.
IvPropagateStep(buf, i) ==
    LET n == Node(buf, i)
    IN IF /\ ~Dead(n) /\ n.type # "INT" /\ n.op \in {"ADD", "SUB", "MUL"}
          /\ n.op1 # IR_NONE /\ n.op2 # IR_NONE
          /\ IvIntOperand(buf, n.op1) /\ IvIntOperand(buf, n.op2)
       THEN IvRetype(buf, i)
       ELSE buf

IvRound(buf) ==
    ForEach(IvPropagateStep, ForEach(IvTagStep, buf, 0, Count(buf)), 0, Count(buf))

\* while (changed && iters++ < 8)
IvMaxRounds == 8

RECURSIVE IvRounds(_, _)
IvRounds(buf, iters) ==
    IF iters >= IvMaxRounds THEN buf
    ELSE LET b == IvRound(buf)
         IN IF b = buf THEN buf ELSE IvRounds(b, iters + 1)

\* Step 4: UNBOX_NUM and BOX_NUM of an INT-typed source.
IvConvertStep(buf, i) ==
    LET n == Node(buf, i)
    IN IF Dead(n) \/ ~isIntType(buf, n.op1) THEN buf
       ELSE IF n.op = "UNBOX_NUM"
       THEN SetNode(buf, i, [n EXCEPT !.op = "UNBOX_INT", !.type = "INT"])
       ELSE IF n.op = "BOX_NUM"
       THEN SetNode(buf, i, [n EXCEPT !.op = "BOX_INT"])
       ELSE buf

\* Step 4b: the UNBOX_NUM that feeds op1 of an INT-typed PHI.
IvPreValueStep(buf, i) ==
    LET phi == Node(buf, i)
        pre == NodeOr(buf, phi.op1)
    IN IF /\ ~Dead(phi) /\ phi.op = "PHI" /\ phi.type = "INT"
          /\ phi.op1 # IR_NONE /\ phi.op1 < Count(buf)
          /\ ~Dead(pre) /\ pre.op = "UNBOX_NUM"
       THEN SetNode(buf, phi.op1, [pre EXCEPT !.op = "UNBOX_INT", !.type = "INT"])
       ELSE buf

\* Step 5: comparisons of two integer operands.
IvCompareStep(buf, i) ==
    LET n == Node(buf, i)
    IN IF /\ ~Dead(n) /\ isComparisonOp(n.op)
          /\ n.op1 # IR_NONE /\ n.op2 # IR_NONE
          /\ n.op1 < Count(buf) /\ n.op2 < Count(buf)
          /\ IvIntOperand(buf, n.op1) /\ IvIntOperand(buf, n.op2)
       THEN IvRetype(buf, i)
       ELSE buf

irOptIVTypeInference(buf) ==
    IF findLoopHeader(buf) = IR_NONE THEN buf
    ELSE ForEach(IvCompareStep,
             ForEach(IvPreValueStep,
                 ForEach(IvConvertStep, IvRounds(buf, 0), 0, Count(buf)),
                 0, Count(buf)),
             0, Count(buf))

\* The k-th pass of irOptimize.
irOptPass(buf, k) ==
    CASE k = 1 -> irOptBoxUnboxElim(buf)
      [] k = 2 -> irOptRedundantGuardElim(buf)
      [] k = 3 -> irOptConstPropFold(buf)
      [] k = 4 -> irOptGVN(buf)
      [] k = 5 -> irOptLICM(buf)
      [] k = 6 -> irOptGuardHoist(buf)
      [] k = 7 -> irOptStrengthReduce(buf)
      [] k = 8 -> irOptBoundsCheckElim(buf)
      [] k = 9 -> irOptEscapeAnalysis(buf)
      [] k = 10 -> irOptDCE(buf)
      [] k = 11 -> irOptGuardElim(buf)
      [] k = 12 -> irOptIVTypeInference(buf)
      [] k = 13 -> irOptDCE(buf)

\* irOptimize: the thirteen passes in order.
irOptimize(buf) ==
    IF Count(buf) = 0 THEN buf ELSE ForEach(irOptPass, buf, 1, 14)

\* wrenJitCompileAndStore.  codegenOk says whether wrenJitCodegen returns a
\* trace, callocOk is the outcome of the calloc in grow_trace_table, k
\* numbers the allocations of the new trace.  ret is the pointer returned
\* (the code id of the trace, NULL for NULL); the optimizer has rewritten
\* the recorder's buffer in place whenever it ran.
wrenJitCompileAndStore(j, r, codegenOk, callocOk, k) ==
    LET idle == [j EXCEPT !.state = "IDLE"]
        aborted == [idle EXCEPT !.traces_aborted = @ + 1]
        none == [jit |-> j, rec |-> r, ret |-> NULL, freed |-> <<>>,
                 stored |-> FALSE]
    IN IF j.state \notin {"RECORDING", "COMPILING"} THEN none
       ELSE IF ~jitRecorderGet(r) THEN [none EXCEPT !.jit = aborted]
       ELSE IF Len(r.ir.snapshots) = 0 THEN [none EXCEPT !.jit = aborted]
       ELSE LET r1 == [r EXCEPT !.ir = irOptimize(@)]
            IN IF ~codegenOk THEN [none EXCEPT !.jit = aborted, !.rec = r1]
               ELSE LET trace == NewTrace(k, j.anchor_pc)
                        st == wrenJitStoreTrace(idle, trace, callocOk)
                    IN [jit |-> st.jit, rec |-> r1, ret |-> trace.code,
                        freed |-> st.freed, stored |-> st.stored]

\* The snapshot table of a compiled trace (wren_jit_snapshot.c); a trace
\* whose table could not be allocated has none.
NoTable == [present |-> FALSE]

jitSnapshotInit(resume_pc, stack_depth) ==
    [resume_pc |-> resume_pc, stack_depth |-> stack_depth,
     num_entries |-> 0, entries |-> <<>>]

\* jitSnapshotAddEntry: a full snapshot drops the entry and returns false.
jitSnapshotAddEntry(snap, slot, ssa_ref) ==
    IF snap.num_entries >= JIT_MAX_SNAPSHOT_ENTRIES THEN snap
    ELSE [snap EXCEPT !.entries = Append(@, [stack_slot |-> slot,
                                             ssa_ref |-> ssa_ref]),
                      !.num_entries = @ + 1]

\* wrenJitCodegen, "Copy snapshot data": the entries of IR snapshot si are
\* added one by one, up to the end of the shared pool; the result of
\* jitSnapshotAddEntry is not looked at.
CopySnapshot(ir, si) ==
    LET irSnap == ir.snapshots[si + 1]
        inPool == {e \in 0..irSnap.num_entries :
                      irSnap.entry_start + e <= Len(ir.snapshot_entries)}
        n == CHOOSE e \in inPool : \A f \in inPool : f <= e
        Add(js, e) ==
            jitSnapshotAddEntry(js,
                ir.snapshot_entries[irSnap.entry_start + e + 1].slot,
                ir.snapshot_entries[irSnap.entry_start + e + 1].ssa_ref)
    IN  ForEach(Add, jitSnapshotInit(irSnap.resume_pc, irSnap.stack_depth),
                0, n)

\* trace->snapshots as wrenJitCodegen leaves it; callocOk is the outcome of
\* the calloc of the table.
TraceSnapshots(ir, callocOk) ==
    IF Len(ir.snapshots) = 0 \/ ~callocOk THEN NoTable
    ELSE [present |-> TRUE,
          num_snapshots |-> Len(ir.snapshots),
          snapshots |-> [si \in 1..Len(ir.snapshots) |-> CopySnapshot(ir, si - 1)]]

\* wrenJitRestoreExit on the frame s = [ip, top, ...] (top is
\* fiber->stackTop - frame->stackStart): no trace table, or an exit index
\* outside it, leaves the frame alone.
wrenJitRestoreExitDepthPlusOne(s, table, exitIdx) ==
    IF ~table.present THEN s
    ELSE IF exitIdx < 0 \/ exitIdx >= table.num_snapshots THEN s
    ELSE [s EXCEPT !.ip = table.snapshots[exitIdx + 1].resume_pc,
                   !.top = table.snapshots[exitIdx + 1].stack_depth + 1]

wrenJitRestoreExit(s, table, exitIdx) ==
    IF ~table.present THEN s
    ELSE IF exitIdx < 0 \/ exitIdx >= table.num_snapshots THEN s
    ELSE [s EXCEPT !.ip = table.snapshots[exitIdx + 1].resume_pc,
                   !.top = table.snapshots[exitIdx + 1].stack_depth]

(***************************************************************************)
(* The legacy recording entry points of wren_jit.c.                        *)
(***************************************************************************)
\* wrenJitStartRecording: only acts in state IDLE; it builds its IR in
\* jit->recording_ir and does not touch jit->recorder.
wrenJitStartRecording(j, pc) ==
    IF j.state # "IDLE" THEN j
    ELSE [j EXCEPT !.state = "RECORDING", !.anchor_pc = pc]

\* wrenJitAbortRecording: only acts in state RECORDING; it does not touch
\* jit->recorder either.
wrenJitAbortRecording(j) ==
    IF j.state # "RECORDING" THEN j
    ELSE [j EXCEPT !.anchor_pc = NULL, !.state = "IDLE",
                   !.traces_aborted = @ + 1]

(***************************************************************************)
(* SpecRec: the life cycle of a recording.  The capacities are scaled      *)
(* down so that every one of them is reached within the instruction        *)
(* budget, as in the source (4096 nodes, 256 snapshots and 256 slots       *)
(* against 1000 instructions of up to 7 nodes each).                       *)
(***************************************************************************)
RecMaxNodes == 11
RecMaxSnapshots == 2
RecMaxSlots == 2
RecMaxInsns == 4
RecMaxSnapshotEntries == 1
RecPreHeaderSlots == 2
\* Number of recordings started in one behaviour.
MaxRecordings == 2
\* Calls of jitRecorderStep explored beyond the instruction budget.
ExtraSteps == 1
\* log2 of the initial capacity of the trace table, so that the second
\* trace stored makes the table grow.
RecCapLog == 0

Instr(op, arg, sym, pc, target) ==
    [op |-> op, arg |-> arg, sym |-> sym, pc |-> pc, next |-> pc + 3,
     target |-> target]

\* The loop that gets recorded.
RecAnchor == AnchorAt(0)

\* The instructions fed to the recorder.
RecInstrs ==
    { Instr("LOAD_LOCAL", 0, "", 40, 0),
      Instr("CALL_1", 0, "+(_)", 43, 0),
      Instr("POP", 0, "", 46, 0),
      Instr("LOOP", 0, "", 49, RecAnchor),
      Instr("LOOP", 0, "", 52, AnchorAt(1)) }

\* What the recorder sees of the VM: every stack slot holds a number.
RecEnvs ==
    { [stack |-> [s \in 0..(RecMaxSlots + 1) |-> NumVal(2)],
       constants |-> <<NumVal(1)>>, nvars |-> 1] }

InitRec ==
    /\ jit = wrenJitInit(Pow2(RecCapLog))
    /\ heap = [a \in AllocIds |-> 0]
    /\ lim = [spec |-> "rec", IR_MAX_NODES |-> RecMaxNodes,
              IR_MAX_SNAPSHOTS |-> RecMaxSnapshots,
              JIT_TRACE_MAX_SLOTS |-> RecMaxSlots,
              JIT_TRACE_MAX_INSNS |-> RecMaxInsns,
              JIT_PRE_HEADER_SLOTS |-> RecPreHeaderSlots,
              JIT_MAX_SNAPSHOT_ENTRIES |-> RecMaxSnapshotEntries]
    /\ rec = NoRecorder
    /\ vm = [ip |-> NULL, top |-> 0]
    /\ ra = NoRegAlloc
    /\ obs = [op |-> "init", steps |-> 0, starts |-> 0, compiles |-> 0,
              aborted |-> FALSE, overflow |-> "none", fault |-> "none",
              returned |-> NULL, stored |-> FALSE, table |-> NoTable,
              exitIdx |-> 0]

\* The process has not faulted; a run is followed up to its first side exit.
Running == obs.fault = "none" /\ obs.op # "wrenJitRestoreExit"

\* The first capacity a call tried to exceed, "none" if it stayed in bounds.
Overflow(r) == IF ~r.present THEN "none"
               ELSE IF r.ir.fault # "none" THEN r.ir.fault ELSE r.fault

\* A recording abort took effect in the call from (j, r) to (j2, r2).
AbortIn(j, r, j2, r2) ==
    \/ j2.traces_aborted # j.traces_aborted
    \/ (r2.present /\ r2.aborted /\ ~(r.present /\ r.aborted))

\* jitRecorderStart(jit, pc, num_slots)
RecStartCall(pc, num_slots) ==
    /\ Running
    /\ obs.starts < MaxRecordings
    /\ \E s \in {jitRecorderStart(jit, pc, num_slots)} :
          /\ jit' = s.jit
          /\ rec' = s.rec
          /\ obs' = [obs EXCEPT !.op = "jitRecorderStart", !.steps = 0,
                                !.starts = @ + 1, !.aborted = FALSE,
                                !.overflow = Overflow(s.rec)]
    /\ UNCHANGED <<heap, lim, vm, ra>>

\* What a call of jitRecorderStep leaves behind.  When the call runs past
\* a capacity, build says what the build does with it: builds with
\* assertions stop in irEmit and irEmitSnapshot, the others write (or read)
\* outside the array.
StepOutcome(j, r, d, build) ==
    [jit |-> d.jit, rec |-> d.rec, over |-> Overflow(d.rec),
     asserts |-> build = "assert"
                   /\ Overflow(d.rec) \in {"irEmit", "irEmitSnapshot"},
     abort |-> AbortIn(j, r, d.jit, d.rec)]

\* A call of jitRecorderStep; steps counts the calls made in the current
\* recording, that is since jitRecorderStart and before any abort of the
\* recorder.
RecStepCall(I, env, build) ==
    /\ Running
    /\ obs.steps < JIT_TRACE_MAX_INSNS + ExtraSteps
    /\ \E d \in {StepOutcome(jit, rec, jitRecorderStep(jit, rec, I, env), build)} :
          /\ jit' = IF d.asserts THEN jit ELSE d.jit
          /\ rec' = IF d.asserts THEN rec ELSE d.rec
          /\ obs' = [obs EXCEPT !.op = "jitRecorderStep",
                                !.steps = IF jitRecorderGet(rec) THEN @ + 1 ELSE @,
                                !.aborted = @ \/ (d.abort /\ ~d.asserts),
                                !.overflow = d.over,
                                !.fault = IF d.over = "none" THEN "none"
                                          ELSE IF d.asserts THEN "assertion"
                                          ELSE "out_of_bounds"]
    /\ UNCHANGED <<heap, lim, vm, ra>>

\* wrenJitStartRecording(jit, pc)
StartRecordingCall(pc) ==
    /\ Running
    /\ obs.starts < MaxRecordings
    /\ jit' = wrenJitStartRecording(jit, pc)
    /\ obs' = [obs EXCEPT !.op = "wrenJitStartRecording", !.starts = @ + 1,
                          !.aborted = IF jit.state = "IDLE" THEN FALSE ELSE @,
                          !.overflow = "none"]
    /\ UNCHANGED <<heap, lim, rec, vm, ra>>

\* wrenJitAbortRecording(jit)
AbortRecordingCall ==
    /\ Running
    /\ jit' = wrenJitAbortRecording(jit)
    /\ obs' = [obs EXCEPT !.op = "wrenJitAbortRecording",
                          !.aborted = @ \/ jit.state = "RECORDING",
                          !.overflow = "none"]
    /\ UNCHANGED <<heap, lim, rec, vm, ra>>

\* wrenJitCompileAndStore(vm, jit, fiber, framePtr); codegenOk and callocOk
\* are the outcomes of wrenJitCodegen and of the calloc in
\* grow_trace_table.
CompileAndStoreCall(codegenOk, callocOk, tableOk) ==
    /\ Running
    /\ \E c \in {wrenJitCompileAndStore(jit, rec, codegenOk, callocOk,
                                        obs.compiles)} :
          /\ jit' = c.jit
          /\ rec' = c.rec
          /\ heap' = Release(heap, c.freed)
          /\ obs' = [obs EXCEPT !.op = "wrenJitCompileAndStore",
                                !.compiles = IF jit.state = "IDLE" THEN @
                                             ELSE @ + 1,
                                !.overflow = "none",
                                !.returned = c.ret, !.stored = c.stored,
                                !.table = IF c.ret = NULL THEN NoTable
                                          ELSE TraceSnapshots(c.rec.ir, tableOk)]
    /\ UNCHANGED <<lim, vm, ra>>

\* A trace with two side exits that differ in resume PC and stack depth.
TwoExitTable ==
    [present |-> TRUE, num_snapshots |-> 2,
     snapshots |-> << jitSnapshotAddEntry(jitSnapshotInit(43, 2), 0, 3),
                      jitSnapshotInit(46, 1) >>]

\* The traces handed to wrenJitRestoreExit: the one the last
\* wrenJitCompileAndStore returned, and one with two side exits.
RestoreTraces == {obs.table, TwoExitTable}

\* wrenJitRestoreExit(vm, jit, fiber, framePtr, trace, exitIdx).
RestoreExitCall(trace, exitIdx) ==
    /\ Running
    /\ obs.op = "wrenJitCompileAndStore" /\ obs.returned # NULL
    /\ vm' = wrenJitRestoreExit(vm, trace, exitIdx)
    /\ obs' = [obs EXCEPT !.op = "wrenJitRestoreExit", !.exitIdx = exitIdx,
                          !.table = trace]
    /\ UNCHANGED <<jit, heap, lim, rec, ra>>

\* What a build does when an index runs past its array: stop at the
\* assertion, or access the memory behind the array.
Builds == {"assert", "release"}

NextRec ==
    \/ \E n \in 0..1 : RecStartCall(RecAnchor, n)
    \/ \E I \in RecInstrs, env \in RecEnvs, build \in Builds :
          RecStepCall(I, env, build)
    \/ StartRecordingCall(RecAnchor)
    \/ AbortRecordingCall
    \/ \E ok \in {<<TRUE, TRUE, TRUE>>, <<FALSE, TRUE, TRUE>>,
                   <<TRUE, FALSE, TRUE>>, <<TRUE, TRUE, FALSE>>} :
          CompileAndStoreCall(ok[1], ok[2], ok[3])
    \/ \E trace \in RestoreTraces, exitIdx \in (-1)..RecMaxSnapshots :
          RestoreExitCall(trace, exitIdx)

SpecRec == InitRec /\ [][NextRec]_vars

\* A recording abort took effect in this step: jitRecorderAbort called by
\* jitRecorderStep, or wrenJitAbortRecording.
RecordingAbort ==
    /\ obs'.op \in {"jitRecorderStep", "wrenJitAbortRecording"}
    /\ obs'.fault = "none"
    /\ AbortIn(jit, rec, jit', rec')

\* C7: every recording abort increments traces_aborted by exactly one and
\* leaves the state IDLE; once the recording has aborted, calls of
\* jitRecorderStep and of wrenJitCompileAndStore change neither
\* traces_aborted nor the state until a new recording is started.
C7_AbortCountsOnceAndSticks ==
    [][ lim.spec = "rec" =>
          /\ RecordingAbort =>
                /\ jit'.traces_aborted = jit.traces_aborted + 1
                /\ jit'.state = "IDLE"
          /\ (obs.aborted
                /\ obs'.op \in {"jitRecorderStep", "wrenJitCompileAndStore"}) =>
                /\ jit'.traces_aborted = jit.traces_aborted
                /\ jit'.state = jit.state ]_vars

\* C8: a call of wrenJitCompileAndStore entered in state RECORDING or
\* COMPILING that installs no trace returns NULL, leaves the trace cache
\* unchanged, increments traces_aborted by exactly one and leaves the
\* state IDLE.
C8_FailedCompileAbortsCleanly ==
    [][ (lim.spec = "rec" /\ obs'.op = "wrenJitCompileAndStore"
           /\ jit.state \in {"RECORDING", "COMPILING"} /\ ~obs'.stored) =>
          /\ obs'.returned = NULL
          /\ jit'.traces = jit.traces
          /\ jit'.trace_count = jit.trace_count
          /\ jit'.traces_aborted = jit.traces_aborted + 1
          /\ jit'.state = "IDLE" ]_vars

\* C9: a call of jitRecorderStep that would exceed a capacity (nodes,
\* snapshots, snapshot entries, tracked slots) returns normally without
\* touching anything outside the arrays, with the recording aborted and
\* the state IDLE.
C9_CapacityOverflowAborts ==
    (lim.spec = "rec" /\ obs.op = "jitRecorderStep" /\ obs.overflow # "none") =>
        /\ obs.fault = "none"
        /\ rec.aborted
        /\ jit.state = "IDLE"

LengthAbort(r) == r.present /\ r.aborted /\ r.abort_reason = "trace too long"

\* C10: in a recording none of the first JIT_TRACE_MAX_INSNS calls of
\* jitRecorderStep is aborted for length, call JIT_TRACE_MAX_INSNS + 1
\* aborts the recording with the reason "trace too long" before its
\* instruction is looked at, whatever the instruction, and every later call
\* leaves the recorder and the JIT state as they are.
C10_LengthLimit ==
    [][ (lim.spec = "rec" /\ obs'.op = "jitRecorderStep") =>
          /\ (obs'.steps = obs.steps + 1 /\ obs'.steps <= JIT_TRACE_MAX_INSNS)
                => ~LengthAbort(rec')
          /\ (obs'.steps = obs.steps + 1
                /\ obs'.steps = JIT_TRACE_MAX_INSNS + 1) =>
                /\ LengthAbort(rec')
                /\ rec'.ir = rec.ir
                /\ rec'.stack_top = rec.stack_top
                /\ jit'.state = "IDLE"
                /\ jit'.traces_aborted = jit.traces_aborted + 1
          /\ LengthAbort(rec) => (rec' = rec /\ jit' = jit) ]_vars

\* Call JIT_TRACE_MAX_INSNS + 1 of a recording has been made and has
\* aborted it.
C10_LengthLimitReached ==
    /\ lim.spec = "rec"
    /\ obs.op = "jitRecorderStep"
    /\ obs.steps = JIT_TRACE_MAX_INSNS + 1
    /\ LengthAbort(rec)


\* A call of jitRecorderStep that records instruction I: made in state
\* RECORDING on a live recorder, within the instruction budget.
Records(I, env, build) ==
    /\ lim.spec = "rec"
    /\ jit.state = "RECORDING"
    /\ jitRecorderGet(rec)
    /\ rec.instr_count < JIT_TRACE_MAX_INSNS
    /\ RecStepCall(I, env, build)

CountOp(buf, op) == Cardinality({k \in DOMAIN buf.nodes : buf.nodes[k].op = op})

\* C12: from jitRecorderStart on, through every call of jitRecorderStep
\* and through irOptimize, the buffer of the recorder holds exactly one
\* LOOP_HEADER node and at most one LOOP_BACK node.
C12_OneHeaderOneBack ==
    (lim.spec = "rec" /\ rec.present /\ obs.fault = "none") =>
        /\ CountOp(rec.ir, "LOOP_HEADER") = 1
        /\ CountOp(rec.ir, "LOOP_BACK") <= 1

(***************************************************************************)
(* The snapshot table of the compiled trace and the side exit, on the      *)
(* traces SpecRec compiles.                                                *)
(***************************************************************************)
\* Snapshot k of the trace's table has the resume PC, the stack depth and
\* the entries of snapshot k of the IR.
SameSnapshot(ir, table, k) ==
    LET irSnap == ir.snapshots[k + 1]
        js == table.snapshots[k + 1]
    IN  /\ js.resume_pc = irSnap.resume_pc
        /\ js.stack_depth = irSnap.stack_depth
        /\ js.num_entries = irSnap.num_entries
        /\ \A e \in 1..irSnap.num_entries :
              /\ js.entries[e].stack_slot
                    = ir.snapshot_entries[irSnap.entry_start + e].slot
              /\ js.entries[e].ssa_ref
                    = ir.snapshot_entries[irSnap.entry_start + e].ssa_ref

\* C19: for every snapshot k of the IR handed to the code generator,
\* snapshot k of the compiled trace has the same resume PC, the same stack
\* depth and exactly the same sequence of (slot, SSA id) entries, for any
\* number of live slots the recorder can track.
C19_TraceSnapshotsEqualIrSnapshots ==
    (lim.spec = "rec" /\ obs.op = "wrenJitCompileAndStore"
                      /\ obs.returned # NULL) =>
        /\ obs.table.present
        /\ \A k \in 0..(Len(rec.ir.snapshots) - 1) :
              SameSnapshot(rec.ir, obs.table, k)

\* The exit index is one of the trace's snapshot table.
ValidExit(table, k) == table.present /\ 0 <= k /\ k < table.num_snapshots

\* C20: wrenJitRestoreExit(trace, k) with 0 <= k < num_snapshots sets the
\* top frame's instruction pointer to snapshot k's resume PC and the
\* fiber's stack top to stack base + snapshot k's stack depth and changes
\* nothing else; with k outside that range, or with a trace that has no
\* snapshot table, it changes nothing.
C20_RestoreExitSetsIpAndStackTop ==
    [][ (lim.spec = "rec" /\ obs'.op = "wrenJitRestoreExit") =>
            /\ jit' = jit /\ rec' = rec /\ heap' = heap /\ ra' = ra
            /\ IF ValidExit(obs'.table, obs'.exitIdx)
               THEN vm' = [vm EXCEPT
                             !.ip = obs'.table.snapshots[obs'.exitIdx + 1].resume_pc,
                             !.top = obs'.table.snapshots[obs'.exitIdx + 1].stack_depth]
               ELSE vm' = vm ]_vars

\* wrenJitRestoreExit has moved the frame to the second snapshot of a trace.
C20_RestoredSecondExit ==
    /\ lim.spec = "rec" /\ obs.op = "wrenJitRestoreExit"
    /\ obs.exitIdx = 1 /\ ValidExit(obs.table, 1)
    /\ vm.ip = obs.table.snapshots[2].resume_pc
    /\ vm.ip # obs.table.snapshots[1].resume_pc
    /\ vm.top = obs.table.snapshots[2].stack_depth
    /\ vm.top # obs.table.snapshots[1].stack_depth /\ vm.top > 0

(***************************************************************************)
(* The linear-scan register allocator (wren_jit_regalloc.c).  Arrays are   *)
(* functions over 0..n-1, as in the C code; the active set is a sequence   *)
(* of indices into ranges[], position p of the C array at p + 1.           *)
(***************************************************************************)
GP_SCRATCH_COUNT == 6
FP_SCRATCH_COUNT == 6
FP_SAVED_COUNT == 4
FP_SCRATCH_BASE == 100
FP_SAVED_BASE == 200

\* classifyRegClass
classifyRegClass(type) == IF type = "NUM" THEN "FP" ELSE "GP"

\* A RegAlloc after memset(0): register 0 of REG_CLASS_GP, not spilled.
ZeroAlloc == [is_spill |-> FALSE, loc |-> 0, reg_class |-> "GP"]

\* The lowest index below n whose flag is set, or -1.
FirstFree(free, n) ==
    IF \E i \in 0..(n - 1) : free[i]
    THEN CHOOSE i \in 0..(n - 1) : free[i] /\ \A j \in 0..(i - 1) : ~free[j]
    ELSE -1

\* allocGPReg, with a variant that never hands out the last scratch register.
allocGPRegSkipsLast(state) ==
    LET i == FirstFree(state.gp_scratch_free, GP_SCRATCH_COUNT - 1)
    IN  IF i >= 0
        THEN [state |-> [state EXCEPT !.gp_scratch_free[i] = FALSE], reg |-> i]
        ELSE [state |-> state, reg |-> -1]

allocGPReg(state) ==
    LET i == FirstFree(state.gp_scratch_free, GP_SCRATCH_COUNT)
    IN  IF i >= 0
        THEN [state |-> [state EXCEPT !.gp_scratch_free[i] = FALSE], reg |-> i]
        ELSE [state |-> state, reg |-> -1]

\* allocFPReg: scratch first, then saved.
allocFPReg(state) ==
    LET i == FirstFree(state.fp_scratch_free, FP_SCRATCH_COUNT)
        j == FirstFree(state.fp_saved_free, FP_SAVED_COUNT)
    IN  IF i >= 0
        THEN [state |-> [state EXCEPT !.fp_scratch_free[i] = FALSE],
              reg |-> FP_SCRATCH_BASE + i]
        ELSE IF j >= 0
        THEN [state |-> [state EXCEPT !.fp_saved_free[j] = FALSE],
              reg |-> FP_SAVED_BASE + j]
        ELSE [state |-> state, reg |-> -1]

\* freeReg
freeReg(state, alloc) ==
    LET r == alloc.loc
    IN  IF alloc.is_spill THEN state
        ELSE IF alloc.reg_class = "GP"
        THEN IF r >= 0 /\ r < GP_SCRATCH_COUNT
             THEN [state EXCEPT !.gp_scratch_free[r] = TRUE]
             ELSE state
        ELSE IF r >= FP_SAVED_BASE /\ r < FP_SAVED_BASE + FP_SAVED_COUNT
        THEN [state EXCEPT !.fp_saved_free[r - FP_SAVED_BASE] = TRUE]
        ELSE IF r >= FP_SCRATCH_BASE /\ r < FP_SCRATCH_BASE + FP_SCRATCH_COUNT
        THEN [state EXCEPT !.fp_scratch_free[r - FP_SCRATCH_BASE] = TRUE]
        ELSE state

\* makeSpill: the new state and the RegAlloc of the spill slot.
makeSpill(state, rc) ==
    [state |-> [state EXCEPT
                  !.next_spill_slot = @ + 1,
                  !.max_spill_slots =
                      IF state.next_spill_slot + 1 > @
                      THEN state.next_spill_slot + 1 ELSE @],
     alloc |-> [is_spill |-> TRUE, loc |-> state.next_spill_slot,
                reg_class |-> rc]]

\* cmpRangeStart(a, b) <= 0: the order qsort leaves the ranges in.
cmpRangeStart(a, b) ==
    IF a.start # b.start THEN a.start - b.start ELSE a.end - b.end

\* regAllocInit
regAllocInit(ssa_count) ==
    [present |-> TRUE,
     ranges |-> [k \in {} |-> ZeroAlloc],
     num_ranges |-> 0,
     gp_scratch_free |-> [i \in 0..(GP_SCRATCH_COUNT - 1) |-> i >= 2],
     fp_scratch_free |-> [i \in 0..(FP_SCRATCH_COUNT - 1) |-> i >= 2],
     fp_saved_free |-> [i \in 0..(FP_SAVED_COUNT - 1) |-> TRUE],
     next_spill_slot |-> 0,
     max_spill_slots |-> 0,
     ssa_to_reg |-> [s \in 0..(ssa_count - 1) |-> ZeroAlloc],
     ssa_count |-> ssa_count]

\* activeInsert: before the first entry whose range ends later.
activeInsert(active, range_idx, ranges) ==
    LET later == {p \in 1..Len(active) :
                     ranges[range_idx].end < ranges[active[p]].end}
        pos == IF later = {} THEN Len(active) + 1
               ELSE CHOOSE p \in later : \A q \in later : p <= q
    IN  SubSeq(active, 1, pos - 1) \o <<range_idx>>
            \o SubSeq(active, pos, Len(active))

\* activeRemove of the entry at C position pos.
activeRemove(active, pos) ==
    SubSeq(active, 1, pos) \o SubSeq(active, pos + 2, Len(active))

\* expireOldIntervals: the leading entries of the active set that end
\* before current_start are removed one by one and their registers freed;
\* the loop stops at the first entry that has not expired.
expireOldIntervals(state, active, current_start) ==
    LET gone == {k \in 0..Len(active) :
                    \A p \in 1..k : state.ranges[active[p]].end < current_start}
        n == CHOOSE k \in gone : \A j \in gone : j <= k
        Free(st, p) == freeReg(st, st.ranges[active[p]].alloc)
    IN  [state |-> ForEach(Free, state, 1, n + 1),
         active |-> SubSeq(active, n + 1, Len(active))]

\* ssa_to_reg[id] = alloc
SetSsaToReg(state, id, alloc) == [state EXCEPT !.ssa_to_reg[id] = alloc]

\* The arguments of one call of activeInsert: the index inserted and
\* whether the range array passed is the null pointer.
InsertCall(range_idx, ranges_null) ==
    [range_idx |-> range_idx, ranges_null |-> ranges_null]

\* spillAtInterval for ranges[cur].  When a register is taken from an active
\* range, activeInsert(active, -1, NULL) runs its search loop once for every
\* entry left in the active set, and each turn reads ranges[-1].end through
\* the null pointer: behaviour the C standard leaves undefined.  ub is the
\* outcome of the build: "trap" (the read faults) or "elided" (the read is
\* never performed, the dummy entry goes to the end and count-- drops it).
spillAtInterval(state, active, cur, ub) ==
    LET current == state.ranges[cur]
        same == {p \in 1..Len(active) :
                    state.ranges[active[p]].reg_class = current.reg_class}
        spill_pos == IF same = {} THEN -1
                     ELSE (CHOOSE p \in same : \A q \in same : q <= p) - 1
        spill_ri == active[spill_pos + 1]
        spill == state.ranges[spill_ri]
        own == makeSpill(state, current.reg_class)
        s1 == SetSsaToReg([state EXCEPT !.ranges[cur].alloc = spill.alloc],
                          current.ssa_id, spill.alloc)
        vic == makeSpill(s1, spill.reg_class)
        s2 == SetSsaToReg([vic.state EXCEPT !.ranges[spill_ri].alloc = vic.alloc],
                          spill.ssa_id, vic.alloc)
        rest == activeRemove(active, spill_pos)
    IN  IF Len(active) = 0 \/ spill_pos = -1
        THEN [state |-> [own.state EXCEPT !.ranges[cur].alloc = own.alloc],
              active |-> active, decision |-> "spill", fault |-> "none",
              inserts |-> <<>>]
        ELSE IF spill.end > current.end
        THEN [state |-> s2, active |-> rest, decision |-> "steal",
              fault |-> IF Len(rest) > 0 /\ ub = "trap"
                        THEN "null dereference" ELSE "none",
              inserts |-> <<InsertCall(-1, TRUE)>>]
        ELSE [state |-> [own.state EXCEPT !.ranges[cur].alloc = own.alloc],
              active |-> active, decision |-> "spill", fault |-> "none",
              inserts |-> <<>>]

\* Record the allocation of ranges[i] in ssa_to_reg, if its id is in range.
RecordAlloc(state, i) ==
    IF state.ranges[i].ssa_id < state.ssa_count
    THEN SetSsaToReg(state, state.ranges[i].ssa_id, state.ranges[i].alloc)
    ELSE state

\* One turn of the loop of regAllocRun, for ranges[i].
regAllocRunTurn(state, active, i, ub) ==
    LET lr == state.ranges[i]
        e == expireOldIntervals(state, active, lr.start)
        a == IF lr.reg_class = "GP" THEN allocGPReg(e.state)
             ELSE allocFPReg(e.state)
        got == [a.state EXCEPT !.ranges[i].alloc =
                   [is_spill |-> FALSE, loc |-> a.reg,
                    reg_class |-> lr.reg_class]]
        sp == spillAtInterval(e.state, e.active, i, ub)
    IN  IF a.reg >= 0
        THEN [state |-> RecordAlloc(got, i),
              active |-> activeInsert(e.active, i, got.ranges),
              decision |-> "register", fault |-> "none",
              inserts |-> <<InsertCall(i, FALSE)>>]
        ELSE IF sp.fault # "none"
        THEN sp
        ELSE IF sp.state.ranges[i].alloc.is_spill
        THEN [sp EXCEPT !.state = RecordAlloc(sp.state, i)]
        ELSE [sp EXCEPT !.state = RecordAlloc(sp.state, i),
                        !.active = activeInsert(sp.active, i, sp.state.ranges),
                        !.inserts = Append(@, InsertCall(i, FALSE))]

(***************************************************************************)
(* Specification of the allocator: the state after regAllocInit and        *)
(* regAllocComputeRanges, for every IR of RaNodes value-producing nodes    *)
(* whose live ranges end at their definition, at the last node or at the   *)
(* one before it, and the turns of regAllocRun from there.  Node i has id  *)
(* i, so the range of node i starts at i, and the ranges are in the order  *)
(* of cmpRangeStart.                                                       *)
(***************************************************************************)
RaNodes == 10
RaClassPatterns == {"gp", "fp", "mixed"}

RaClass(p, i) ==
    IF p = "gp" THEN "ANY"
    ELSE IF p = "fp" THEN "NUM"
    ELSE IF i % 2 = 0 THEN "ANY" ELSE "NUM"

RaEnd(c, i) ==
    IF c = 0 THEN i
    ELSE IF c = 1 /\ i < RaNodes - 2 THEN RaNodes - 2
    ELSE RaNodes - 1

RaRanges(p, ends) ==
    [i \in 0..(RaNodes - 1) |->
        [ssa_id |-> i, start |-> i, end |-> RaEnd(ends[i], i),
         reg_class |-> classifyRegClass(RaClass(p, i)), alloc |-> ZeroAlloc]]

\* irEmitPhi
irEmitPhi(buf, op1, op2, type) == irEmit(buf, "PHI", op1, op2, type)

\* regAllocComputeRanges.  A node defines a value unless it is dead or one
\* of the opcodes pass 1 skips; node i has id i.
DefinesValue(n) ==
    /\ "DEAD" \notin n.flags
    /\ n.op \notin {"NOP", "STORE_STACK", "STORE_FIELD", "STORE_MODULE_VAR",
                    "LOOP_HEADER", "LOOP_BACK", "SIDE_EXIT", "SNAPSHOT"}

\* Pass 1: the uses of id by the value-defining nodes after it.
RangeUses(buf, id) ==
    {i \in (id + 1)..(Count(buf) - 1) :
        /\ DefinesValue(Node(buf, i))
        /\ (Node(buf, i).op1 = id \/ Node(buf, i).op2 = id)}

\* Pass 2: last_exit_for_snap[si] for the snapshots that hold id.
RangeExits(buf, id) ==
    {i \in 0..(Count(buf) - 1) :
        /\ Node(buf, i).op = "SIDE_EXIT"
        /\ Node(buf, i).imm < Len(buf.snapshots)
        /\ \E e \in 1..buf.snapshots[Node(buf, i).imm + 1].num_entries :
              LET entry_idx == buf.snapshots[Node(buf, i).imm + 1].entry_start + e
              IN  /\ entry_idx <= Len(buf.snapshot_entries)
                  /\ buf.snapshot_entries[entry_idx].ssa_ref = id}

\* Pass 3: a PHI lives to the loop back edge, its first operand to the PHI
\* and its second operand to the loop back edge.
RangeLoopEnd(buf) ==
    IF findLoopBack(buf) # IR_NONE THEN findLoopBack(buf)
    ELSE IF Count(buf) > 0 THEN Count(buf) - 1 ELSE 0

RangePhis(buf, id) ==
    LET phis == {i \in 0..(Count(buf) - 1) :
                    Node(buf, i).op = "PHI" /\ DefinesValue(Node(buf, i))}
    IN  (IF id \in phis THEN {RangeLoopEnd(buf)} ELSE {})
        \cup {i \in phis : Node(buf, i).op1 = id}
        \cup {RangeLoopEnd(buf) : i \in {k \in phis : Node(buf, k).op2 = id}}

RangeEnd(buf, id) ==
    LET ends == {id} \cup RangeUses(buf, id) \cup RangeExits(buf, id)
                     \cup RangePhis(buf, id)
    IN  CHOOSE e \in ends : \A x \in ends : x <= e

\* The ranges in the order of their start, which is the order of the ids.
regAllocComputeRanges(state, buf) ==
    LET ids == {id \in 0..(Count(buf) - 1) : DefinesValue(Node(buf, id))}
        Rank(id) == Cardinality({x \in ids : x < id})
    IN  [state EXCEPT
           !.num_ranges = Cardinality(ids),
           !.ranges = [k \in 0..(Cardinality(ids) - 1) |->
                         LET id == CHOOSE x \in ids : Rank(x) = k
                         IN  [ssa_id |-> id, start |-> id,
                              end |-> RangeEnd(buf, id),
                              reg_class |-> classifyRegClass(Node(buf, id).type),
                              alloc |-> ZeroAlloc]]]

\* IR buffers with a PHI: the one of test_phi, and a counting loop whose
\* PHI joins the initial value and the incremented value.
PhiOfTwoConstants ==
    LET a == irEmitConst(irBufferInit, 0)
        b == irEmitConst(a, 1)
    IN  irEmitPhi(b, LastId(a), LastId(b), "NUM")

PhiOfCountingLoop ==
    LET init == irEmitConst(irBufferInit, 0)
        header == irEmitLoopHeader(init)
        phi == irEmitPhi(header, LastId(init), NextId(header) + 2, "NUM")
        step == irEmitConst(phi, 1)
        add == irEmit(step, "ADD", LastId(phi), LastId(step), "NUM")
    IN  irEmitLoopBack(add)

RaPhiBuffers == {PhiOfTwoConstants, PhiOfCountingLoop}

InitRA ==
    /\ lim = [spec |-> "regalloc", IR_MAX_NODES |-> 4096,
              IR_MAX_SNAPSHOTS |-> 256]
    /\ jit = wrenJitInit(JIT_MAX_TRACES)
    /\ heap = [a \in AllocIds |-> 0]
    /\ rec = NoRecorder
    /\ vm = [ip |-> NULL]
    /\ obs = [op |-> "regAllocComputeRanges", decision |-> "none",
              fault |-> "none", inserts |-> <<>>]
    /\ \E p \in RaClassPatterns, ends \in [0..(RaNodes - 1) -> 0..2] :
          \E rs \in {RaRanges(p, ends)} :
             /\ \A i \in 0..(RaNodes - 2) : cmpRangeStart(rs[i], rs[i + 1]) <= 0
             /\ ra = [state |-> [regAllocInit(RaNodes) EXCEPT
                                    !.ranges = rs, !.num_ranges = RaNodes],
                      active |-> <<>>, i |-> 0, present |-> TRUE,
                      buf |-> irBufferInit]

\* The state after regAllocInit and regAllocComputeRanges for the buffers
\* of RaPhiBuffers.
InitRAPhi ==
    /\ lim = [spec |-> "regalloc", IR_MAX_NODES |-> 4096,
              IR_MAX_SNAPSHOTS |-> 256]
    /\ jit = wrenJitInit(JIT_MAX_TRACES)
    /\ heap = [a \in AllocIds |-> 0]
    /\ rec = NoRecorder
    /\ vm = [ip |-> NULL]
    /\ obs = [op |-> "regAllocComputeRanges", decision |-> "none",
              fault |-> "none", inserts |-> <<>>]
    /\ \E buf \in RaPhiBuffers :
          ra = [state |-> regAllocComputeRanges(regAllocInit(Count(buf)), buf),
                active |-> <<>>, i |-> 0, present |-> TRUE, buf |-> buf]

\* regAllocRun, one turn of its loop per step; it returns when i reaches
\* num_ranges and does not continue after a fault.
RegAllocRunStep(ub) ==
    /\ lim.spec = "regalloc"
    /\ obs.fault = "none"
    /\ ra.i < ra.state.num_ranges
    /\ \E t \in {regAllocRunTurn(ra.state, ra.active, ra.i, ub)} :
          /\ ra' = [ra EXCEPT !.state = t.state, !.active = t.active,
                              !.i = @ + 1]
          /\ obs' = [op |-> "regAllocRun", decision |-> t.decision,
                     fault |-> t.fault, inserts |-> t.inserts]
    /\ UNCHANGED <<jit, heap, lim, rec, vm>>

NextRA == \E ub \in {"trap", "elided"} : RegAllocRunStep(ub)

SpecRA == (InitRA \/ InitRAPhi) /\ [][NextRA]_vars

\* regAllocRun has ended: it returned, or it faulted.
RegAllocEnded ==
    lim.spec = "regalloc" /\ (ra.i = ra.state.num_ranges \/ obs.fault # "none")

\* Two live ranges of one class, both in registers, whose intervals overlap.
Overlapping(a, b) ==
    /\ a.reg_class = b.reg_class
    /\ ~a.alloc.is_spill /\ ~b.alloc.is_spill
    /\ a.start <= b.end /\ b.start <= a.end

Allocatable(rc) ==
    IF rc = "GP" THEN 2..(GP_SCRATCH_COUNT - 1)
    ELSE (FP_SCRATCH_BASE + 2)..(FP_SCRATCH_BASE + FP_SCRATCH_COUNT - 1)
            \cup FP_SAVED_BASE..(FP_SAVED_BASE + FP_SAVED_COUNT - 1)

\* Register r of class rc is held by a live range that covers index at.
HeldAcross(state, rc, r, at) ==
    \E k \in 0..(state.num_ranges - 1) :
        /\ state.ranges[k].reg_class = rc
        /\ ~state.ranges[k].alloc.is_spill /\ state.ranges[k].alloc.loc = r
        /\ state.ranges[k].start <= at /\ at <= state.ranges[k].end

\* C14: regAllocRun gives a live range a spill slot, or takes a register
\* away from another range, only at a point where every allocatable
\* register of that range's class is held by a live range whose interval
\* covers the current range's start index.
C14_SpillOnlyWhenClassIsFull ==
    [][ (lim.spec = "regalloc" /\ obs'.decision \in {"spill", "steal"}) =>
            \A r \in Allocatable(ra.state.ranges[ra.i].reg_class) :
                HeldAcross(ra.state, ra.state.ranges[ra.i].reg_class, r,
                           ra.state.ranges[ra.i].start) ]_vars

\* A turn of regAllocRun has just taken a register from another range, after
\* earlier turns had handed out spill slot 0.
C14_StoleAndSpilled ==
    /\ lim.spec = "regalloc" /\ obs.decision = "steal"
    /\ \E k \in 0..(ra.i - 2) :
          /\ ra.state.ranges[k].alloc.is_spill
          /\ ra.state.ranges[k].alloc.loc = 0
          /\ ra.state.next_spill_slot >= 2

\* The location regAllocRun recorded for an SSA id.
LocationOf(id) == ra.state.ssa_to_reg[id]

\* C28: after register allocation, every live PHI node and its pre-loop and
\* back-edge operands are assigned the same location (same register or same
\* spill slot), so that emitting no code at the PHI is correct.
C28_PhiSharesLocationWithOperands ==
    (RegAllocEnded /\ obs.fault = "none") =>
        \A i \in 0..(Count(ra.buf) - 1) :
            (Node(ra.buf, i).op = "PHI" /\ DefinesValue(Node(ra.buf, i))) =>
                /\ LocationOf(Node(ra.buf, i).op1) = LocationOf(i)
                /\ LocationOf(Node(ra.buf, i).op2) = LocationOf(i)

\* C30: during regAllocRun every index inserted into or read through the
\* active set is a valid index into the live-range array (0 <= index <
\* num_ranges) and the range array passed to activeInsert is never null,
\* including on the path where a register is stolen from an active range.
C30_ActiveSetIndicesValid ==
    lim.spec = "regalloc" =>
        /\ \A c \in 1..Len(obs.inserts) :
              /\ 0 <= obs.inserts[c].range_idx
              /\ obs.inserts[c].range_idx < ra.state.num_ranges
              /\ ~obs.inserts[c].ranges_null
        /\ \A p \in 1..Len(ra.active) :
              0 <= ra.active[p] /\ ra.active[p] < ra.state.num_ranges
        /\ obs.fault = "none"

(***************************************************************************)
(* The host interpreter.  wren_vm.c is not part of the core; the bytecode  *)
(* semantics below are the stack effects the recorder's own comments       *)
(* state for each opcode, and the semantics of Range.iterate quoted in     *)
(* wren_jit_trace_widen.c.  The interpreter leaves the slots above the     *)
(* stack top as they are.                                                  *)
(***************************************************************************)
MaxStack == 6
PcBase == 100
PcOf(k) == PcBase + 3 * k

\* One assembled instruction: index k in the function, operand, symbol and
\* the index of the branch target.
Asm(k, op, arg, sym, tk) == Instr(op, arg, sym, PcOf(k), PcOf(tk))

Fetch(code, ip) == code[((ip - PcBase) \div 3) + 1]

ErrorIn(s) == [s EXCEPT !.mode = "error"]

\* Num methods of one argument.  Equality accepts any argument; the others
\* raise a runtime error unless the argument is a Num.
NumCall1(sym, a, b) ==
    IF sym = "==(_)" THEN BoolVal(IS_NUM(b) /\ a.v = b.v)
    ELSE IF sym = "!=(_)" THEN BoolVal(~(IS_NUM(b) /\ a.v = b.v))
    ELSE IF ~IS_NUM(b) THEN NullVal
    ELSE CASE sym = "+(_)" -> NumVal(a.v + b.v)
           [] sym = "-(_)" -> NumVal(a.v - b.v)
           [] sym = "*(_)" -> NumVal(a.v * b.v)
           [] sym = "<(_)" -> BoolVal(a.v < b.v)
           [] sym = ">(_)" -> BoolVal(a.v > b.v)
           [] sym = "<=(_)" -> BoolVal(a.v <= b.v)
           [] sym = ">=(_)" -> BoolVal(a.v >= b.v)
           [] OTHER -> NullVal

NumCall1Fails(sym, b) ==
    \/ sym \notin {"==(_)", "!=(_)", "+(_)", "-(_)", "*(_)", "<(_)", ">(_)",
                   "<=(_)", ">=(_)"}
    \/ (sym \notin {"==(_)", "!=(_)"} /\ ~IS_NUM(b))

\* range_iterate, as quoted in wren_jit_trace_widen.c.
range_iterate(r, arg) ==
    IF r.v = r.to /\ r.incl = 0 THEN BoolVal(FALSE)
    ELSE IF arg.t = "null" THEN NumVal(r.v)
    ELSE LET it == IF r.v < r.to THEN arg.v + 1 ELSE arg.v - 1
         IN IF (r.v < r.to /\ it > r.to) \/ (r.v >= r.to /\ it < r.to)
            THEN BoolVal(FALSE)
            ELSE IF r.incl = 0 /\ it = r.to THEN BoolVal(FALSE)
            ELSE NumVal(it)

\* CALL_1: the receiver is below the argument; the result replaces the
\* receiver and the argument is popped.
InterpCall1(s, I) ==
    LET recv == s.stack[s.top - 2]
        arg == s.stack[s.top - 1]
        ret(val) == [s EXCEPT !.stack[s.top - 2] = val, !.top = @ - 1,
                              !.ip = I.next]
    IN IF IS_NUM(recv)
       THEN IF NumCall1Fails(I.sym, arg) THEN ErrorIn(s)
            ELSE ret(NumCall1(I.sym, recv, arg))
       ELSE IF IS_RANGE(recv) /\ I.sym = "iterate(_)"
                 /\ (IS_NUM(arg) \/ arg.t = "null")
       THEN ret(range_iterate(recv, arg))
       ELSE IF IS_RANGE(recv) /\ I.sym = "iteratorValue(_)" /\ IS_NUM(arg)
       THEN ret(arg)
       ELSE IF I.sym = "==(_)" THEN ret(BoolVal(recv = arg))
       ELSE IF I.sym = "!=(_)" THEN ret(BoolVal(recv # arg))
       ELSE ErrorIn(s)

\* One interpreter instruction on s = [ip, stack, top, vars, mode, ...].
InterpExec(s, I, constants) ==
    LET op == I.op
        push(val) == [s EXCEPT !.stack[s.top] = val, !.top = @ + 1,
                               !.ip = I.next]
    IN CASE op = "LOAD_LOCAL" -> push(s.stack[I.arg])
         [] op = "STORE_LOCAL" ->
              [s EXCEPT !.stack[I.arg] = s.stack[s.top - 1], !.ip = I.next]
         [] op = "LOAD_MODULE_VAR" -> push(s.vars[I.arg])
         [] op = "STORE_MODULE_VAR" ->
              [s EXCEPT !.vars[I.arg] = s.stack[s.top - 1], !.ip = I.next]
         [] op = "CONSTANT" -> push(constants[I.arg + 1])
         [] op = "NULL" -> push(NullVal)
         [] op = "TRUE" -> push(BoolVal(TRUE))
         [] op = "FALSE" -> push(BoolVal(FALSE))
         [] op = "POP" -> [s EXCEPT !.top = @ - 1, !.ip = I.next]
         [] op = "CALL_1" -> InterpCall1(s, I)
         [] op = "JUMP_IF" ->
              [s EXCEPT !.top = @ - 1,
                        !.ip = IF wrenIsFalsyValue(s.stack[s.top - 1])
                               THEN I.target ELSE I.next]
         [] op = "AND" ->
              \* If TOS is false, jump forward; otherwise pop and continue.
              IF wrenIsFalsyValue(s.stack[s.top - 1])
              THEN [s EXCEPT !.ip = I.target]
              ELSE [s EXCEPT !.top = @ - 1, !.ip = I.next]
         [] op = "OR" ->
              \* If TOS is non-false, jump forward; otherwise pop and continue.
              IF wrenIsFalsyValue(s.stack[s.top - 1])
              THEN [s EXCEPT !.top = @ - 1, !.ip = I.next]
              ELSE [s EXCEPT !.ip = I.target]
         [] op = "JUMP" -> [s EXCEPT !.ip = I.target]
         [] op = "LOOP" -> [s EXCEPT !.ip = I.target]
         [] op = "END" -> [s EXCEPT !.mode = "done"]
         [] OTHER -> ErrorIn(s)


(***************************************************************************)
(* The code wrenJitCodegen emits, executed one IR node at a time.  Every   *)
(* SSA id has one location (the allocator is not modelled), so regs maps   *)
(* ids to the 64-bit words the emitted instructions leave there.  A        *)
(* comparison leaves a raw 0/1 word; a Num and its unboxed double are the  *)
(* same word.                                                              *)
(***************************************************************************)
Undef == [t |-> "undef", v |-> 0, to |-> 0, incl |-> 0]
RawBool(b) == [t |-> "raw", v |-> IF b THEN 1 ELSE 0, to |-> 0, incl |-> 0]
NanBits == [t |-> "nan", v |-> 0, to |-> 0, incl |-> 0]

Reg(s, id) == IF id \in DOMAIN s.regs THEN s.regs[id] ELSE Undef

\* The word is all zero bits: raw false or the double +0.
ZeroBits(val) == val.t \in {"raw", "num"} /\ val.v = 0

\* (val & QNAN) != QNAN
NumberBits(val) == val.t \in {"num", "raw", "nan"}

\* What a step adds to the record of behaviour the C standard or the
\* machine leaves open.
Ub(s, cond, what) == IF cond THEN s.ub \cup {what} ELSE s.ub

\* Leave the trace through the stub of snapshot snapId; a jump recorded
\* against no stub (snapId >= snapshot_count) is never given a target.
SideExit(s, snapId) ==
    IF snapId < Len(s.code.snapshots)
    THEN [s EXCEPT !.mode = "exit", !.ret = snapId + 1, !.guard = s.npc]
    ELSE [s EXCEPT !.mode = "crash", !.ub = @ \cup {"unpatched jump"},
                   !.guard = s.npc]

Advance(s) == [s EXCEPT !.npc = @ + 1]

SetReg(s, id, val) == Advance([s EXCEPT !.regs[id] = val])

FpArith(op, a, b) ==
    IF IS_NUM(a) /\ (op = "NEG" \/ IS_NUM(b))
    THEN CASE op = "ADD" -> NumVal(a.v + b.v)
           [] op = "SUB" -> NumVal(a.v - b.v)
           [] op = "MUL" -> NumVal(a.v * b.v)
           [] op = "NEG" -> NumVal(0 - a.v)
           [] OTHER -> NanBits
    ELSE NanBits

FpCompare(op, a, b) ==
    IF IS_NUM(a) /\ IS_NUM(b)
    THEN RawBool(CASE op = "LT" -> a.v < b.v [] op = "GT" -> a.v > b.v
                   [] op = "LTE" -> a.v <= b.v [] op = "GTE" -> a.v >= b.v
                   [] op = "EQ" -> a.v = b.v [] OTHER -> a.v # b.v)
    ELSE RawBool(op = "NEQ")

\* GUARD_TRUE leaves when the operand is falsy, GUARD_FALSE when it is
\* truthy; an operand node of type BOOL is tested against zero, any other
\* against FALSE_VAL and NULL_VAL.
GuardLeaves(s, n) ==
    LET val == Reg(s, n.op1)
        rawTest == n.op1 < Count(s.code) /\ Node(s.code, n.op1).type = "BOOL"
        falsy == IF rawTest THEN ZeroBits(val) ELSE wrenIsFalsyValue(val)
    IN CASE n.op = "GUARD_NUM" -> ~NumberBits(val)
         [] n.op = "GUARD_TRUE" -> falsy
         [] n.op = "GUARD_FALSE" -> ~falsy
         [] n.op = "GUARD_NOT_NULL" -> val.t = "null"
         [] OTHER -> FALSE

\* One node of the main code generation loop.  class is the outcome of
\* GUARD_CLASS, which loads obj->classObj through the NaN-boxed word itself
\* and not through the pointer inside it: the load may fault, or return a
\* word that is or is not the expected class.
ExecNode(s, class) ==
    LET n == Node(s.code, s.npc)
        id == s.npc
        op == n.op
        a == Reg(s, n.op1)
        b == Reg(s, n.op2)
        s1 == [s EXCEPT !.ub = Ub(s, n.op1 # IR_NONE /\ a.t = "undef"
                                     /\ op \notin {"LOOP_BACK", "LOAD_MODULE_VAR",
                                                   "SNAPSHOT", "PHI"},
                                  "uninitialised read")]
    IN IF "DEAD" \in n.flags \/ op = "NOP" THEN Advance(s)
       ELSE CASE op = "CONST_NUM" -> SetReg(s, id, NumVal(n.imm))
         [] op = "CONST_BOOL" -> SetReg(s, id, BoolVal(n.imm # 0))
         [] op = "CONST_NULL" -> SetReg(s, id, NullVal)
         [] op = "LOAD_STACK" -> SetReg(s, id, StackAt(s.stack, n.imm))
         [] op = "STORE_STACK" ->
              IF n.op1 = IR_NONE THEN Advance(s)
              ELSE Advance([s1 EXCEPT !.stack[n.imm] = a])
         [] op \in {"UNBOX_NUM", "BOX_NUM"} ->
              IF n.op1 = IR_NONE THEN Advance(s) ELSE SetReg(s1, id, a)
         [] op = "BOX_BOOL" ->
              IF n.op1 = IR_NONE THEN Advance(s)
              ELSE SetReg(s1, id, BoolVal(~ZeroBits(a)))
         [] op \in {"ADD", "SUB", "MUL", "NEG"} ->
              SetReg([s1 EXCEPT !.ub = Ub(s1, FpArith(op, a, b) = NanBits,
                                          "arithmetic on a tagged word")],
                     id, FpArith(op, a, b))
         [] isCmp(op) -> SetReg(s1, id, FpCompare(op, a, b))
         [] op \in {"GUARD_NUM", "GUARD_TRUE", "GUARD_FALSE", "GUARD_NOT_NULL"} ->
              IF n.op1 = IR_NONE THEN Advance(s)
              ELSE IF GuardLeaves(s1, n) THEN SideExit(s1, n.imm)
              ELSE Advance(s1)
         [] op = "GUARD_CLASS" ->
              IF n.op1 = IR_NONE THEN Advance(s)
              ELSE LET s2 == [s1 EXCEPT !.ub = @ \cup {"class load"}]
                   IN IF class = "fault" THEN [s2 EXCEPT !.mode = "crash"]
                      ELSE IF class = "other" THEN SideExit(s2, n.op2)
                      ELSE Advance(s2)
         [] op = "LOOP_BACK" ->
              IF findLoopHeader(s.code) # IR_NONE
              THEN [s EXCEPT !.npc = findLoopHeader(s.code)]
              ELSE Advance(s)
         [] op = "LOAD_MODULE_VAR" -> SetReg(s, id, s.vars[n.imm - VarPtr(0)])
         [] op = "STORE_MODULE_VAR" ->
              IF n.op1 = IR_NONE THEN Advance(s)
              ELSE Advance([s1 EXCEPT !.vars[n.imm - VarPtr(0)] = a])
         [] OTHER -> Advance(s)


(***************************************************************************)
(* The whole pipeline on small loops: interpret, count back-edges, record, *)
(* compile, run the trace, leave it through a side exit, resume.           *)
(***************************************************************************)
\* Number of iterations of the loops.
LoopCount == 6
\* jit->hot_threshold of the runs below (wrenJitInit sets 50).
HotThreshold == 2
\* The value of i from which the loop "cond" takes its other branch.
FlipAt == 4
\* Interpreter and trace steps explored in one run.
MaxSteps == 700
\* Instructions of the reference run of the interpreter alone.
RefSteps == 150
\* Index of the first module variable the program declares itself.
FirstUserVar == 24
\* Values of JIT_PRE_HEADER_SLOTS, which no file of the core defines.
PreHeaderChoices == {0, 2, 4}

ProgramNames == {"sum", "incsum", "for", "forever", "square", "cond", "spin",
                 "count", "either", "swap"}

UserVar(k) == FirstUserVar + k

\* Constant table shared by the programs.
ProgConstants == <<NumVal(LoopCount), NumVal(1), NumVal(0), NumVal(FlipAt),
                   NumVal(LoopCount * LoopCount), NumVal(2)>>

\* while (i < n) { sum = sum + i; i = i + 1 }  (vars: sum, i)
CodeSum ==
    << Asm(0, "LOAD_MODULE_VAR", UserVar(1), "", 0),
       Asm(1, "CONSTANT", 0, "", 0),
       Asm(2, "CALL_1", 0, "<(_)", 0),
       Asm(3, "JUMP_IF", 0, "", 15),
       Asm(4, "LOAD_MODULE_VAR", UserVar(0), "", 0),
       Asm(5, "LOAD_MODULE_VAR", UserVar(1), "", 0),
       Asm(6, "CALL_1", 0, "+(_)", 0),
       Asm(7, "STORE_MODULE_VAR", UserVar(0), "", 0),
       Asm(8, "POP", 0, "", 0),
       Asm(9, "LOAD_MODULE_VAR", UserVar(1), "", 0),
       Asm(10, "CONSTANT", 1, "", 0),
       Asm(11, "CALL_1", 0, "+(_)", 0),
       Asm(12, "STORE_MODULE_VAR", UserVar(1), "", 0),
       Asm(13, "POP", 0, "", 0),
       Asm(14, "LOOP", 0, "", 0),
       Asm(15, "END", 0, "", 0) >>

\* while (i < n) { i = i + 1; sum = sum + i }
CodeIncSum ==
    << Asm(0, "LOAD_MODULE_VAR", UserVar(1), "", 0),
       Asm(1, "CONSTANT", 0, "", 0),
       Asm(2, "CALL_1", 0, "<(_)", 0),
       Asm(3, "JUMP_IF", 0, "", 15),
       Asm(4, "LOAD_MODULE_VAR", UserVar(1), "", 0),
       Asm(5, "CONSTANT", 1, "", 0),
       Asm(6, "CALL_1", 0, "+(_)", 0),
       Asm(7, "STORE_MODULE_VAR", UserVar(1), "", 0),
       Asm(8, "POP", 0, "", 0),
       Asm(9, "LOAD_MODULE_VAR", UserVar(0), "", 0),
       Asm(10, "LOAD_MODULE_VAR", UserVar(1), "", 0),
       Asm(11, "CALL_1", 0, "+(_)", 0),
       Asm(12, "STORE_MODULE_VAR", UserVar(0), "", 0),
       Asm(13, "POP", 0, "", 0),
       Asm(14, "LOOP", 0, "", 0),
       Asm(15, "END", 0, "", 0) >>

\* for (k in 1..n) { sum = sum + k }  (locals: 1 = sequence, 2 = iterator,
\* 3 = k)
CodeFor ==
    << Asm(0, "LOAD_LOCAL", 1, "", 0),
       Asm(1, "LOAD_LOCAL", 2, "", 0),
       Asm(2, "CALL_1", 0, "iterate(_)", 0),
       Asm(3, "STORE_LOCAL", 2, "", 0),
       Asm(4, "JUMP_IF", 0, "", 15),
       Asm(5, "LOAD_LOCAL", 1, "", 0),
       Asm(6, "LOAD_LOCAL", 2, "", 0),
       Asm(7, "CALL_1", 0, "iteratorValue(_)", 0),
       Asm(8, "LOAD_MODULE_VAR", UserVar(0), "", 0),
       Asm(9, "LOAD_LOCAL", 3, "", 0),
       Asm(10, "CALL_1", 0, "+(_)", 0),
       Asm(11, "STORE_MODULE_VAR", UserVar(0), "", 0),
       Asm(12, "POP", 0, "", 0),
       Asm(13, "POP", 0, "", 0),
       Asm(14, "LOOP", 0, "", 0),
       Asm(15, "END", 0, "", 0) >>

\* while (true) { i = i + 1 }
CodeForever ==
    << Asm(0, "TRUE", 0, "", 0),
       Asm(1, "JUMP_IF", 0, "", 8),
       Asm(2, "LOAD_MODULE_VAR", UserVar(1), "", 0),
       Asm(3, "CONSTANT", 1, "", 0),
       Asm(4, "CALL_1", 0, "+(_)", 0),
       Asm(5, "STORE_MODULE_VAR", UserVar(1), "", 0),
       Asm(6, "POP", 0, "", 0),
       Asm(7, "LOOP", 0, "", 0),
       Asm(8, "END", 0, "", 0) >>

\* while (i * i < n * n) { it = r.iterate(it); i = i + 1 }
\* (vars: i = 1, it = 2, r = 3)
CodeSquare ==
    << Asm(0, "LOAD_MODULE_VAR", UserVar(1), "", 0),
       Asm(1, "LOAD_MODULE_VAR", UserVar(1), "", 0),
       Asm(2, "CALL_1", 0, "*(_)", 0),
       Asm(3, "CONSTANT", 4, "", 0),
       Asm(4, "CALL_1", 0, "<(_)", 0),
       Asm(5, "JUMP_IF", 0, "", 17),
       Asm(6, "LOAD_MODULE_VAR", UserVar(3), "", 0),
       Asm(7, "LOAD_MODULE_VAR", UserVar(2), "", 0),
       Asm(8, "CALL_1", 0, "iterate(_)", 0),
       Asm(9, "STORE_MODULE_VAR", UserVar(2), "", 0),
       Asm(10, "POP", 0, "", 0),
       Asm(11, "LOAD_MODULE_VAR", UserVar(1), "", 0),
       Asm(12, "CONSTANT", 1, "", 0),
       Asm(13, "CALL_1", 0, "+(_)", 0),
       Asm(14, "STORE_MODULE_VAR", UserVar(1), "", 0),
       Asm(15, "POP", 0, "", 0),
       Asm(16, "LOOP", 0, "", 0),
       Asm(17, "END", 0, "", 0) >>

\* while (i < n) { sum = sum + (i < FlipAt ? 1 : 2); i = i + 1 }
CodeCond ==
    << Asm(0, "LOAD_MODULE_VAR", UserVar(1), "", 0),
       Asm(1, "CONSTANT", 0, "", 0),
       Asm(2, "CALL_1", 0, "<(_)", 0),
       Asm(3, "JUMP_IF", 0, "", 21),
       Asm(4, "LOAD_MODULE_VAR", UserVar(0), "", 0),
       Asm(5, "LOAD_MODULE_VAR", UserVar(1), "", 0),
       Asm(6, "CONSTANT", 3, "", 0),
       Asm(7, "CALL_1", 0, "<(_)", 0),
       Asm(8, "JUMP_IF", 0, "", 11),
       Asm(9, "CONSTANT", 1, "", 0),
       Asm(10, "JUMP", 0, "", 12),
       Asm(11, "CONSTANT", 5, "", 0),
       Asm(12, "CALL_1", 0, "+(_)", 0),
       Asm(13, "STORE_MODULE_VAR", UserVar(0), "", 0),
       Asm(14, "POP", 0, "", 0),
       Asm(15, "LOAD_MODULE_VAR", UserVar(1), "", 0),
       Asm(16, "CONSTANT", 1, "", 0),
       Asm(17, "CALL_1", 0, "+(_)", 0),
       Asm(18, "STORE_MODULE_VAR", UserVar(1), "", 0),
       Asm(19, "POP", 0, "", 0),
       Asm(20, "LOOP", 0, "", 0),
       Asm(21, "END", 0, "", 0) >>

\* while (this) { }  in a method whose receiver, in slot 0, is a number
CodeSpin ==
    << Asm(0, "LOAD_LOCAL", 0, "", 0),
       Asm(1, "JUMP_IF", 0, "", 3),
       Asm(2, "LOOP", 0, "", 0),
       Asm(3, "END", 0, "", 0) >>

\* while (i < n) { i = i + 1 }  (local: i in slot 0)
CodeCount ==
    << Asm(0, "LOAD_LOCAL", 0, "", 0),
       Asm(1, "CONSTANT", 0, "", 0),
       Asm(2, "CALL_1", 0, "<(_)", 0),
       Asm(3, "JUMP_IF", 0, "", 10),
       Asm(4, "LOAD_LOCAL", 0, "", 0),
       Asm(5, "CONSTANT", 1, "", 0),
       Asm(6, "CALL_1", 0, "+(_)", 0),
       Asm(7, "STORE_LOCAL", 0, "", 0),
       Asm(8, "POP", 0, "", 0),
       Asm(9, "LOOP", 0, "", 0),
       Asm(10, "END", 0, "", 0) >>

\* while (this || null) { null && true }  in a method whose receiver, in
\* slot 0, is a number
CodeEither ==
    << Asm(0, "LOAD_LOCAL", 0, "", 0),
       Asm(1, "OR", 0, "", 3),
       Asm(2, "NULL", 0, "", 0),
       Asm(3, "JUMP_IF", 0, "", 9),
       Asm(4, "NULL", 0, "", 0),
       Asm(5, "AND", 0, "", 7),
       Asm(6, "TRUE", 0, "", 0),
       Asm(7, "POP", 0, "", 0),
       Asm(8, "LOOP", 0, "", 0),
       Asm(9, "END", 0, "", 0) >>

\* while (it = r.iterate(it)) { t = r; r = q; q = t }
\* (vars: q = 0, t = 1, it = 2, r = 3; r and q hold two ranges)
CodeSwap ==
    << Asm(0, "LOAD_MODULE_VAR", UserVar(3), "", 0),
       Asm(1, "LOAD_MODULE_VAR", UserVar(2), "", 0),
       Asm(2, "CALL_1", 0, "iterate(_)", 0),
       Asm(3, "STORE_MODULE_VAR", UserVar(2), "", 0),
       Asm(4, "JUMP_IF", 0, "", 15),
       Asm(5, "LOAD_MODULE_VAR", UserVar(3), "", 0),
       Asm(6, "STORE_MODULE_VAR", UserVar(1), "", 0),
       Asm(7, "POP", 0, "", 0),
       Asm(8, "LOAD_MODULE_VAR", UserVar(0), "", 0),
       Asm(9, "STORE_MODULE_VAR", UserVar(3), "", 0),
       Asm(10, "POP", 0, "", 0),
       Asm(11, "LOAD_MODULE_VAR", UserVar(1), "", 0),
       Asm(12, "STORE_MODULE_VAR", UserVar(0), "", 0),
       Asm(13, "POP", 0, "", 0),
       Asm(14, "LOOP", 0, "", 0),
       Asm(15, "END", 0, "", 0) >>

ProgCode(p) ==
    CASE p = "sum" -> CodeSum [] p = "incsum" -> CodeIncSum
      [] p = "swap" -> CodeSwap
      [] p = "count" -> CodeCount [] p = "either" -> CodeEither
      [] p = "for" -> CodeFor [] p = "forever" -> CodeForever
      [] p = "square" -> CodeSquare [] p = "spin" -> CodeSpin
      [] OTHER -> CodeCond


NoCode == irBufferInit

\* The interpreter at the first arrival at the loop (the anchor).
InitVM(p) ==
    [ip |-> PcOf(0),
     stack |-> [i \in 0..(MaxStack - 1) |->
                  IF p = "for" /\ i = 1 THEN RangeVal(1, LoopCount, TRUE)
                  ELSE IF p \in {"spin", "either"} /\ i = 0 THEN NumVal(1)
                  ELSE IF p = "count" /\ i = 0 THEN NumVal(0)
                  ELSE NullVal],
     top |-> IF p = "for" THEN 3 ELSE 1,
     vars |-> [i \in 0..UserVar(3) |->
                 IF p = "swap" /\ i = UserVar(0) THEN RangeVal(1, 3, TRUE)
                 ELSE IF i \in {UserVar(0), UserVar(1)} THEN NumVal(0)
                 ELSE IF i = UserVar(3) THEN RangeVal(1, 3 * LoopCount, TRUE)
                 ELSE NullVal],
     mode |-> "interp", hot |-> 0, steps |-> 0,
     npc |-> 0, regs |-> <<>>, code |-> NoCode, recorded |-> NoCode,
     table |-> NoTable,
     ret |-> 0, guard |-> 0, ub |-> {}, entered |-> FALSE]

\* The interpreter alone, run to the end of the program: at most fuel
\* instructions, executed as two halves so that the evaluation stays
\* shallow.
RECURSIVE RunInterp(_, _, _)
RunInterp(s, code, fuel) ==
    IF s.mode # "interp" \/ fuel = 0 THEN s
    ELSE IF fuel = 1 THEN InterpExec(s, Fetch(code, s.ip), ProgConstants)
    ELSE RunInterp(RunInterp(s, code, fuel \div 2), code,
                   fuel - (fuel \div 2))

Outcome(s) == [mode |-> s.mode, stack |-> [i \in 0..(s.top - 1) |-> s.stack[i]],
               top |-> s.top, vars |-> s.vars]

InitPipe ==
    /\ \E k \in PreHeaderChoices, p \in ProgramNames :
          lim = [spec |-> "pipe", IR_MAX_NODES |-> 4096,
                 IR_MAX_SNAPSHOTS |-> 256, JIT_TRACE_MAX_SLOTS |-> 256,
                 JIT_TRACE_MAX_INSNS |-> 1000, JIT_PRE_HEADER_SLOTS |-> k,
                 JIT_MAX_SNAPSHOT_ENTRIES |-> 64, prog |-> p]
    /\ jit = wrenJitInit(JIT_MAX_TRACES)
    /\ heap = [i \in AllocIds |-> 0]
    /\ rec = NoRecorder
    /\ vm = InitVM(lim.prog)
    /\ ra = NoRegAlloc
    /\ obs = [op |-> "init",
              ref |-> Outcome(RunInterp(InitVM(lim.prog), ProgCode(lim.prog),
                                        RefSteps))]

RecEnv(s) == [stack |-> s.stack, constants |-> ProgConstants,
              nvars |-> UserVar(3) + 1]

\* wrenJitExecute: enter the code of the trace with nothing in its
\* registers.
EnterTrace(s) ==
    [s EXCEPT !.mode = "native", !.npc = 0, !.entered = TRUE,
              !.regs = [i \in 0..(Count(s.code) - 1) |-> Undef]]

\* What the interpreter does at a backward branch it has just taken:
\* run the trace cached for the target, or count the branch and start
\* recording when the count reaches the threshold.
BackEdge(j, r, s, target) ==
    IF wrenJitLookupSlot(j, target) # NULL
    THEN [jit |-> j, rec |-> r, vm |-> EnterTrace(s)]
    ELSE LET s1 == [s EXCEPT !.hot = @ + 1]
         IN IF j.state = "IDLE" /\ s1.hot = HotThreshold
            THEN LET st == jitRecorderStart(j, target, s.top)
                 IN [jit |-> st.jit, rec |-> st.rec, vm |-> s1]
            ELSE [jit |-> j, rec |-> r, vm |-> s1]

\* The recorder sees an instruction before the interpreter executes it.
RecorderSees(j, r, s, I) ==
    IF j.state = "RECORDING"
    THEN jitRecorderStep(j, r, I, RecEnv(s))
    ELSE [jit |-> j, rec |-> r, ret |-> FALSE]

\* The interpreter executes I and, at a backward branch, consults the JIT.
Dispatch(j, r, s1, I) ==
    IF I.op = "LOOP"
    THEN BackEdge(j, r, s1, I.target)
    ELSE [jit |-> j, rec |-> r, vm |-> s1]

\* When the recorder has closed the loop the instruction is held back
\* until the trace has been compiled.
AfterRecorder(st, s0, I) ==
    IF st.jit.state = "COMPILING"
    THEN [jit |-> st.jit, rec |-> st.rec, vm |-> s0]
    ELSE Dispatch(st.jit, st.rec, InterpExec(s0, I, ProgConstants), I)

InterpNext(j, r, s, I) ==
    AfterRecorder(RecorderSees(j, r, s, I), [s EXCEPT !.steps = @ + 1], I)

\* One interpreter instruction.
InterpStep ==
    /\ lim.spec = "pipe"
    /\ vm.mode = "interp" /\ vm.steps < MaxSteps
    /\ jit.state # "COMPILING"
    /\ \E n \in {InterpNext(jit, rec, vm, Fetch(ProgCode(lim.prog), vm.ip))} :
          /\ jit' = n.jit
          /\ rec' = n.rec
          /\ vm' = n.vm
          /\ obs' = [obs EXCEPT !.op = IF n.jit.state = "COMPILING"
                                       THEN "record" ELSE "interp"]
    /\ UNCHANGED <<heap, lim, ra>>

\* wrenJitCompileAndStore, called as soon as the recorder has closed the
\* loop.
CompileStep ==
    /\ lim.spec = "pipe"
    /\ jit.state = "COMPILING"
    /\ LET c == wrenJitCompileAndStore(jit, rec, TRUE, TRUE, 0)
       IN /\ jit' = c.jit
          /\ rec' = c.rec
          /\ vm' = [vm EXCEPT !.recorded = rec.ir,
                              !.code = IF c.stored THEN c.rec.ir ELSE @,
                              !.table = IF c.stored
                                        THEN TraceSnapshots(c.rec.ir, TRUE)
                                        ELSE @]
          /\ obs' = [obs EXCEPT !.op = "compile"]
    /\ UNCHANGED <<heap, lim, ra>>

LiveGuardClass(s) ==
    /\ s.npc < Count(s.code)
    /\ Node(s.code, s.npc).op = "GUARD_CLASS"
    /\ "DEAD" \notin Node(s.code, s.npc).flags
    /\ Node(s.code, s.npc).op1 # IR_NONE

\* One node of the trace; past the last node the success epilogue returns
\* 0 and the interpreter goes on where it was.
NativeStep(class) ==
    /\ lim.spec = "pipe"
    /\ vm.mode = "native" /\ vm.steps < MaxSteps
    /\ class = "match" \/ LiveGuardClass(vm)
    /\ LET s0 == [vm EXCEPT !.steps = @ + 1]
       IN vm' = IF vm.npc >= Count(vm.code)
                THEN [s0 EXCEPT !.mode = "interp", !.ret = 0]
                ELSE ExecNode(s0, class)
    /\ obs' = [obs EXCEPT !.op = "native"]
    /\ UNCHANGED <<jit, heap, lim, rec, ra>>

\* The side exit: wrenJitRestoreExit for the value the trace returned.

DeoptStep ==
    /\ lim.spec = "pipe"
    /\ vm.mode = "exit"
    /\ vm' = [wrenJitRestoreExit(vm, vm.table, vm.ret - 1)
                 EXCEPT !.mode = "interp"]
    /\ obs' = [obs EXCEPT !.op = "deopt"]
    /\ UNCHANGED <<jit, heap, lim, rec, ra>>

NextPipe ==
    \/ InterpStep
    \/ CompileStep
    \/ \E class \in {"match", "other", "fault"} : NativeStep(class)
    \/ DeoptStep

SpecPipe == InitPipe /\ [][NextPipe]_vars


\* The run took only steps whose outcome the code determines.
Determined == vm.ub = {}

Finished == vm.mode \in {"done", "error", "crash"}

\* C1: for every installed trace entered in the interpreter's state at the
\* anchor, running the trace and resuming the interpreter at the resume PC
\* of the snapshot it returns ends with the same stack slots and module
\* variables as the interpreter alone.  (Stated for the runs in which no
\* step of the trace had an undetermined outcome.)
C1_TraceRunMatchesInterpreter ==
    (lim.spec = "pipe" /\ vm.entered /\ Determined /\ Finished
       /\ obs.ref.mode = "done")
        => Outcome(vm) = obs.ref

\* The entries of snapshot k of the installed trace.
ExitEntries(s, k) ==
    LET sn == s.code.snapshots[k + 1]
    IN {s.code.snapshot_entries[e] :
           e \in (sn.entry_start + 1)..(sn.entry_start + sn.num_entries)}

\* C2: whenever a compiled trace returns N > 0, every interpreter stack
\* slot listed in snapshot N-1 already holds the current value of the SSA
\* id paired with it, so wrenJitRestoreExit has only the instruction
\* pointer and the stack top to set.
C2_ExitSlotsHoldSnapshotValues ==
    (lim.spec = "pipe" /\ vm.mode = "exit" /\ Determined)
        => \A e \in ExitEntries(vm, vm.ret - 1) :
              StackAt(vm.stack, e.slot) = Reg(vm, e.ssa_ref)

\* The snapshot id the recorder gave the guard with SSA id g.
RecordedSnapshot(g) ==
    IF Node(vm.recorded, g).op = "GUARD_CLASS" THEN Node(vm.recorded, g).op2
    ELSE Node(vm.recorded, g).imm

\* C3: a failure, in the compiled code, of a guard the recorder emitted
\* with snapshot id s and that is still live after irOptimize makes the
\* trace return exactly s + 1.
C3_GuardFailureReturnsItsSnapshot ==
    (lim.spec = "pipe" /\ vm.mode = "exit"
       /\ isGuard(Node(vm.recorded, vm.guard).op))
        => vm.ret = RecordedSnapshot(vm.guard) + 1

LiveGuardInLoop(buf) ==
    \E i \in 0..(Count(buf) - 1) :
        /\ findLoopHeader(buf) < i /\ i < findLoopBack(buf)
        /\ isGuard(Node(buf, i).op)
        /\ "DEAD" \notin Node(buf, i).flags

\* C4: every trace wrenJitCompileAndStore installs still has, after
\* optimization, at least one live guard between LOOP_HEADER and
\* LOOP_BACK, so native execution can always leave the loop.
C4_InstalledTraceKeepsAGuard ==
    (lim.spec = "pipe" /\ wrenJitLookupSlot(jit, PcOf(0)) # NULL)
        => LiveGuardInLoop(vm.code)

(***************************************************************************)
(* Properties of the optimizer, on the buffers the recorder built for the  *)
(* programs of SpecPipe: vm.recorded is the buffer handed to               *)
(* wrenJitCompileAndStore, vm.code the buffer irOptimize left.             *)
(***************************************************************************)
\* The compile step has just run irOptimize on the recorded buffer.
Optimized ==
    lim.spec = "pipe" /\ obs.op = "compile" /\ Count(vm.recorded) > 0

\* Node i lies between the loop header and the loop back edge.
InLoop(buf, i) ==
    /\ findLoopHeader(buf) # IR_NONE /\ findLoopBack(buf) # IR_NONE
    /\ findLoopHeader(buf) < i /\ i < findLoopBack(buf)

\* Every operand of every live node is NONE or names an earlier node; the
\* second operand of a PHI in the loop is exempt.
OperandsPrecede(buf) ==
    \A i \in 0..(Count(buf) - 1) :
        ~Dead(Node(buf, i)) =>
            /\ Node(buf, i).op1 = IR_NONE \/ Node(buf, i).op1 < i
            /\ \/ Node(buf, i).op2 = IR_NONE \/ Node(buf, i).op2 < i
               \/ Node(buf, i).op = "PHI" /\ InLoop(buf, i)

\* C15: after irOptimize on a recorder-produced IR buffer, op1 and op2 of
\* every non-dead node are each NONE or the id of a node at a strictly
\* smaller index, except the back-edge operand of a PHI between loop header
\* and loop back.
C15_OperandsPrecedeTheirUse ==
    Optimized => OperandsPrecede(vm.code)

\* The index of the IR_SNAPSHOT node of snapshot k, or -1.
SnapshotNode(buf, k) ==
    LET at == {i \in 0..(Count(buf) - 1) :
                  Node(buf, i).op = "SNAPSHOT" /\ Node(buf, i).imm = k}
    IN  IF at = {} THEN -1 ELSE CHOOSE i \in at : \A j \in at : i <= j

\* Every entry of every snapshot names a node that is neither dead nor a
\* NOP and that does not come after the snapshot's IR_SNAPSHOT node.
SnapshotEntriesValid(buf) ==
    \A k \in 0..(Len(buf.snapshots) - 1) :
        \A e \in 1..buf.snapshots[k + 1].num_entries :
            LET ref == buf.snapshot_entries[buf.snapshots[k + 1].entry_start + e].ssa_ref
            IN  /\ ref < Count(buf)
                /\ ~Dead(Node(buf, ref)) /\ Node(buf, ref).op # "NOP"
                /\ ref <= SnapshotNode(buf, k)

\* The recorded buffer after the first k passes of irOptimize.
AfterPasses(buf, k) == ForEach(irOptPass, buf, 1, k + 1)

NumPasses == 13

\* C16: after every optimizer pass and after the whole pipeline, each
\* snapshot entry references an SSA id whose node is not dead and whose
\* index is at most the index of that snapshot's IR_SNAPSHOT node.
C16_SnapshotEntriesStayValid ==
    Optimized =>
        /\ SnapshotEntriesValid(vm.code)
        /\ \A k \in 1..NumPasses : SnapshotEntriesValid(AfterPasses(vm.recorded, k))

\* The optimizer killed a node that a recorded snapshot entry names, and the
\* entry now names another node.
C16_EntryFollowedItsNode ==
    /\ Optimized
    /\ \E e \in DOMAIN vm.recorded.snapshot_entries :
          /\ Dead(Node(vm.code, vm.recorded.snapshot_entries[e].ssa_ref))
          /\ vm.code.snapshot_entries[e].ssa_ref
                # vm.recorded.snapshot_entries[e].ssa_ref

\* The recorded nodes that node i of the optimized buffer can be: the node
\* at the same index if its opcode is still the same, otherwise the nodes of
\* that opcode and immediate which the optimizer killed where they stood.
Origins(before, after, i) ==
    IF Node(before, i).op = Node(after, i).op THEN {i}
    ELSE {k \in 0..(Count(before) - 1) :
             /\ Node(before, k).op = Node(after, i).op
             /\ Node(before, k).imm = Node(after, i).imm
             /\ Dead(Node(after, k))}

Surviving(buf) ==
    {i \in 0..(Count(buf) - 1) : ~Dead(Node(buf, i)) /\ hasSideEffect(Node(buf, i))}

SameOrder(before, after) ==
    \A i1, i2 \in Surviving(after) :
        i1 < i2 => \E k1 \in Origins(before, after, i1),
                      k2 \in Origins(before, after, i2) : k1 < k2

\* C17: any two nodes among stores, calls, guards, side exits, snapshots,
\* loop header and loop back that both survive irOptimize appear in the
\* same relative buffer order as in the recorded IR.
C17_SideEffectsKeepTheirOrder ==
    Optimized => SameOrder(vm.recorded, vm.code)

\* C18: running irOptimize a second time on irOptimize(b) changes nothing;
\* the result equals the single-run result node for node.
C18_OptimizeIsIdempotent ==
    Optimized => irOptimize(vm.code).nodes = vm.code.nodes

\* The buffer irOptimize hands to its k-th pass.
BeforePass(k) == AfterPasses(vm.recorded, k - 1)

\* A STORE_STACK to the slot lies between LOOP_HEADER and LOOP_BACK.
StoredInLoop(buf, slot) ==
    \E j \in (findLoopHeader(buf) + 1)..(findLoopBack(buf) - 1) :
        Node(buf, j).op = "STORE_STACK" /\ Node(buf, j).imm = slot

\* C21: irOptLICM never moves a LOAD_STACK node out of the loop body when a
\* STORE_STACK to the same slot exists between LOOP_HEADER and LOOP_BACK.
C21_LicmKeepsLoadsOfStoredSlots ==
    Optimized =>
        \A before \in {BeforePass(5)} : \A after \in {irOptLICM(before)} :
            (findLoopHeader(before) # IR_NONE /\ findLoopBack(before) # IR_NONE)
                => \A i \in (findLoopHeader(before) + 1)..(findLoopBack(before) - 1) :
                      (/\ Node(before, i).op = "LOAD_STACK"
                       /\ StoredInLoop(before, Node(before, i).imm))
                          => Node(after, i).op = "LOAD_STACK"

\* Node s stores to the location node l loads from.
StoresTo(s, l) ==
    \/ l.op = "LOAD_STACK" /\ s.op = "STORE_STACK" /\ s.imm = l.imm
    \/ l.op = "LOAD_MODULE_VAR" /\ s.op = "STORE_MODULE_VAR" /\ s.imm = l.imm
    \/ l.op = "LOAD_FIELD" /\ s.op = "STORE_FIELD" /\ s.op1 = l.op1
          /\ s.field = l.field

\* The earlier loads identical to load k with a store to the location of k
\* between them and k.
StaleLoads(buf, k) ==
    {i \in 0..(k - 1) :
        /\ gvnEqual(Node(buf, i), Node(buf, k))
        /\ \E j \in (i + 1)..(k - 1) : StoresTo(Node(buf, j), Node(buf, k))}

\* The ids that take the place of id k in the operands of the nodes.
ReplacedBy(before, after, k) ==
    {Node(after, u).op1 : u \in {x \in 0..(Count(before) - 1) :
                                   Node(before, x).op1 = k}}
    \cup {Node(after, u).op2 : u \in {x \in 0..(Count(before) - 1) :
                                   Node(before, x).op2 = k}}

\* C22: irOptGVN never replaces a load (LOAD_STACK, LOAD_FIELD or
\* LOAD_MODULE_VAR) by an earlier identical load when a store to the same
\* slot, field or module variable lies between the two loads in the buffer.
C22_GvnKeepsLoadsAcrossStores ==
    Optimized =>
        \A before \in {BeforePass(4)} : \A after \in {irOptGVN(before)} :
            \A k \in 0..(Count(before) - 1) :
                Node(before, k).op \in {"LOAD_STACK", "LOAD_FIELD",
                                        "LOAD_MODULE_VAR"}
                    => ReplacedBy(before, after, k)
                          \cap StaleLoads(before, k) = {}

\* A live GUARD_NUM on value val stands before node u.
GuardedNumBefore(buf, val, u) ==
    \E g \in 0..(u - 1) :
        /\ Node(buf, g).op = "GUARD_NUM" /\ Node(buf, g).op1 = val
        /\ "DEAD" \notin Node(buf, g).flags

\* C23: in the IR produced by irOptimize, every UNBOX_NUM whose operand is
\* a LOAD_STACK, LOAD_MODULE_VAR or LOAD_FIELD value comes after a live
\* GUARD_NUM on that same operand, so a non-number in that location at the
\* entry of the trace causes a side exit before the value is used as a
\* number.
C23_UnboxedLoadsAreGuarded ==
    Optimized =>
        \A u \in 0..(Count(vm.code) - 1) :
            (/\ Node(vm.code, u).op = "UNBOX_NUM"
             /\ Node(vm.code, u).op1 < Count(vm.code)
             /\ Node(vm.code, Node(vm.code, u).op1).op
                    \in {"LOAD_STACK", "LOAD_MODULE_VAR", "LOAD_FIELD"})
                => GuardedNumBefore(vm.code, Node(vm.code, u).op1, u)


\* The interpreter's state after the branch I had the condition on top of
\* the stack been of the other truthiness.
Flipped(val) == IF wrenIsFalsyValue(val) THEN BoolVal(TRUE) ELSE NullVal

OppositeBranch(s, I) ==
    InterpExec([s EXCEPT !.stack[s.top - 1] = Flipped(@)], I, ProgConstants)

RecordedBranch(I) ==
    /\ lim.spec = "pipe" /\ vm.mode = "interp" /\ jit.state = "RECORDING"
    /\ I.op \in {"JUMP_IF", "AND", "OR"}
    /\ NextSnap(rec'.ir) = NextSnap(rec.ir) + 1

\* C24: the snapshot the recorder emits at JUMP_IF, AND or OR holds the PC
\* and the stack depth the interpreter has after that branch taken with the
\* truthiness opposite to the observed one, and the guard emitted with it
\* checks the observed truthiness against that snapshot.
C24_BranchSnapshotResumesOppositePath ==
    [][LET I == Fetch(ProgCode(lim.prog), vm.ip)
       IN RecordedBranch(I) =>
            LET snap == rec'.ir.snapshots[NextSnap(rec'.ir)]
                guard == Node(rec'.ir, NextId(rec'.ir) - 1)
                opp == OppositeBranch(vm, I)
            IN /\ snap.resume_pc = opp.ip
               /\ snap.stack_depth = opp.top
               /\ guard.op = IF wrenIsFalsyValue(vm.stack[vm.top - 1])
                             THEN "GUARD_FALSE" ELSE "GUARD_TRUE"
               /\ guard.imm = LastSnap(rec'.ir)]_vars


\* The roots of the mark phase: a store that is not flagged dead, the loop
\* markers, exits, calls, snapshots, PHIs and guards.
IsLiveRoot(n) ==
    \/ n.op \in {"STORE_STACK", "STORE_FIELD", "STORE_MODULE_VAR"} /\ ~Dead(n)
    \/ n.op \in {"SIDE_EXIT", "LOOP_BACK", "LOOP_HEADER", "CALL_C", "CALL_WREN",
                 "SNAPSHOT", "PHI"}
    \/ isGuard(n.op)

ReferencedBySnapshot(buf, i) ==
    \E k \in DOMAIN buf.snapshot_entries : buf.snapshot_entries[k].ssa_ref = i

\* Node i is a root, is named by a snapshot entry, or is an operand of a
\* node that is needed (followed from the node through its users).
RECURSIVE Needed(_, _, _)
Needed(buf, i, fuel) ==
    \/ IsLiveRoot(Node(buf, i))
    \/ ReferencedBySnapshot(buf, i)
    \/ /\ fuel > 0
       /\ \E j \in 0..(Count(buf) - 1) :
             /\ i \in {Node(buf, j).op1, Node(buf, j).op2}
             /\ Needed(buf, j, fuel - 1)

\* The two places of the pipeline where irOptDCE runs.
DcePasses == {10, 13}

\* irOptDCE turned every unneeded node of before into a dead NOP and left
\* the needed ones as they were.
DceExact(before, after) ==
    \A i \in 0..(Count(before) - 1) :
        IF Needed(before, i, Count(before))
        THEN Node(after, i) = Node(before, i)
        ELSE Node(after, i).op = "NOP" /\ Dead(Node(after, i))

\* The same, but a node that already was a NOP is left as it was.
DceExactButNops(before, after) ==
    \A i \in 0..(Count(before) - 1) :
        IF Needed(before, i, Count(before)) \/ Node(before, i).op = "NOP"
        THEN Node(after, i) = Node(before, i)
        ELSE Node(after, i).op = "NOP" /\ Dead(Node(after, i))

OptConstants == {0, 1, 2, 4}
OptSymbols == {"/(_)", "+(_)", "*(_)"}

\* while (true) { x = x / c1 <sym> c2 }  (local: x in slot 0; the constant
\* table holds c1 and c2)
CodeDivide(sym) ==
    << Asm(0, "LOAD_LOCAL", 0, "", 0),
       Asm(1, "CONSTANT", 0, "", 0),
       Asm(2, "CALL_1", 0, "/(_)", 0),
       Asm(3, "CONSTANT", 1, "", 0),
       Asm(4, "CALL_1", 0, sym, 0),
       Asm(5, "STORE_LOCAL", 0, "", 0),
       Asm(6, "POP", 0, "", 0),
       Asm(7, "LOOP", 0, "", 0) >>

\* What the recorder is given at each instruction: a stack that holds
\* numbers and the two constants of the function.
OptEnv(c1, c2) ==
    [stack |-> [i \in 0..(MaxStack - 1) |-> NumVal(8)],
     constants |-> <<NumVal(c1), NumVal(c2)>>, nvars |-> 0]

\* A loop with a promoted variable: the pre-loop value, the PHI, the step
\* and the back-edge operation, built with the emit functions.
PreKinds == {"const", "unboxed", "loaded"}
StepKinds == {"const", "fraction", "unboxed"}
BackOps == {"ADD", "SUB", "MUL"}

PromotedLoop(preKind, stepKind, backOp, phiIsLHS) ==
    LET load == irEmitLoad(irBufferInit, 0)
        pre == CASE preKind = "const" -> irEmitConst(load, 0)
                 [] preKind = "unboxed" -> irEmitUnbox(load, LastId(load))
                 [] OTHER -> load
        header == irEmitLoopHeader(pre)
        phi == irEmitPhi(header, LastId(pre),
                         NextId(header) + (IF stepKind = "unboxed" THEN 3 ELSE 2),
                         "NUM")
        step == CASE stepKind = "const" -> irEmitConst(phi, 1)
                  [] stepKind = "fraction" -> irEmitConst(phi, Recip(2))
                  [] OTHER -> irEmitUnbox(irEmitLoad(phi, 1), NextId(phi))
        back == IF phiIsLHS
                THEN irEmit(step, backOp, LastId(phi), LastId(step), "NUM")
                ELSE irEmit(step, backOp, LastId(step), LastId(phi), "NUM")
        boxed == irEmitBox(back, LastId(back))
    IN irEmitLoopBack(irEmitStore(boxed, 0, LastId(boxed)))

OptLimits ==
    [spec |-> "opt", IR_MAX_NODES |-> 4096, IR_MAX_SNAPSHOTS |-> 256,
     JIT_TRACE_MAX_SLOTS |-> 256, JIT_TRACE_MAX_INSNS |-> 1000,
     JIT_PRE_HEADER_SLOTS |-> 2, JIT_MAX_SNAPSHOT_ENTRIES |-> 64]

OptStart(kind, buf) ==
    [kind |-> kind, recorded |-> buf, prev |-> buf, code |-> buf, pass |-> 0,
     next |-> 1, c1 |-> 0, c2 |-> 0, sym |-> ""]

\* The recorder has just been started at the anchor of the loop.
InitOptRecorded ==
    /\ lim = OptLimits
    /\ heap = [a \in AllocIds |-> 0]
    /\ ra = NoRegAlloc
    /\ obs = [op |-> "init"]
    /\ \E st \in {jitRecorderStart(wrenJitInit(JIT_MAX_TRACES), PcOf(0), 1)} :
          jit = st.jit /\ rec = st.rec
    /\ \E c1 \in OptConstants, c2 \in OptConstants, sym \in OptSymbols :
          vm = [OptStart("recorded", irBufferInit)
                   EXCEPT !.c1 = c1, !.c2 = c2, !.sym = sym]

InitOptPromoted ==
    /\ lim = OptLimits
    /\ jit = wrenJitInit(JIT_MAX_TRACES)
    /\ heap = [a \in AllocIds |-> 0]
    /\ rec = NoRecorder
    /\ ra = NoRegAlloc
    /\ obs = [op |-> "init"]
    /\ \E preKind \in PreKinds, stepKind \in StepKinds, backOp \in BackOps,
          phiIsLHS \in BOOLEAN :
          vm = OptStart("promoted",
                        PromotedLoop(preKind, stepKind, backOp, phiIsLHS))

\* jitRecorderStep on the next instruction of the loop; the LOOP that closes
\* the trace hands the buffer to the optimizer.
OptRecordStep ==
    /\ lim.spec = "opt"
    /\ vm.kind = "recorded" /\ jit.state = "RECORDING"
    /\ vm.next <= Len(CodeDivide(vm.sym))
    /\ \E st \in {jitRecorderStep(jit, rec, CodeDivide(vm.sym)[vm.next],
                                   OptEnv(vm.c1, vm.c2))} :
          /\ jit' = st.jit
          /\ rec' = st.rec
          /\ vm' = IF st.jit.state = "COMPILING"
                   THEN [vm EXCEPT !.next = vm.next + 1, !.recorded = st.rec.ir,
                                   !.prev = st.rec.ir, !.code = st.rec.ir]
                   ELSE [vm EXCEPT !.next = vm.next + 1]
    /\ obs' = [op |-> "jitRecorderStep"]
    /\ UNCHANGED <<heap, lim, ra>>

\* irOptimize, one pass per step.
OptimizePassStep ==
    /\ lim.spec = "opt"
    /\ vm.kind = "recorded" /\ jit.state = "COMPILING" /\ vm.pass < NumPasses
    /\ \E b \in {irOptPass(vm.code, vm.pass + 1)} :
          vm' = [vm EXCEPT !.prev = vm.code, !.code = b, !.pass = vm.pass + 1]
    /\ obs' = [op |-> "irOptimize"]
    /\ UNCHANGED <<jit, heap, lim, rec, ra>>

\* irOptIVTypeInference on a buffer with a promoted variable.
IVTypeInferenceStep ==
    /\ lim.spec = "opt"
    /\ vm.kind = "promoted" /\ vm.pass = 0
    /\ \E b \in {irOptIVTypeInference(vm.code)} :
          vm' = [vm EXCEPT !.prev = vm.code, !.code = b, !.pass = 12]
    /\ obs' = [op |-> "irOptIVTypeInference"]
    /\ UNCHANGED <<jit, heap, lim, rec, ra>>

NextOpt == OptRecordStep \/ OptimizePassStep \/ IVTypeInferenceStep

SpecOpt == (InitOptRecorded \/ InitOptPromoted) /\ [][NextOpt]_vars

\* Node i of buf is a division by a constant other than zero.
DivByConstant(buf, i) ==
    /\ Node(buf, i).op = "DIV" /\ Node(buf, i).op2 # IR_NONE
    /\ Node(buf, Node(buf, i).op2).op = "CONST_NUM"
    /\ Node(buf, Node(buf, i).op2).imm # 0

\* irOptStrengthReduce has just run on vm.prev and left vm.code.
StrengthReduced ==
    lim.spec = "opt" /\ vm.kind = "recorded" /\ vm.pass = 7

\* C25: after irOptStrengthReduce every DIV(x, c) with a nonzero constant c
\* is MUL(x, k) with a constant k = 1/c for the node's own c, and every
\* other node that uses the constant node of such a division still reads c.
C25_DivBecomesMulByItsReciprocal ==
    StrengthReduced =>
        \A i \in 0..(Count(vm.prev) - 1) :
            IF DivByConstant(vm.prev, i)
            THEN LET d == Node(vm.prev, i)
                     m == Node(vm.code, i)
                 IN /\ m.op = "MUL" /\ m.op1 = d.op1 /\ m.op2 # IR_NONE
                    /\ Node(vm.code, m.op2).op = "CONST_NUM"
                    /\ Node(vm.code, m.op2).imm = Recip(Node(vm.prev, d.op2).imm)
            ELSE \A o \in {Node(vm.prev, i).op1, Node(vm.prev, i).op2} :
                    (\E j \in 0..(Count(vm.prev) - 1) :
                        DivByConstant(vm.prev, j) /\ Node(vm.prev, j).op2 = o)
                        => /\ Node(vm.code, i).op = Node(vm.prev, i).op
                           /\ Node(vm.code, o) = Node(vm.prev, o)


\* irOptIVTypeInference has just run on vm.prev and left vm.code.
IVTypesInferred ==
    lim.spec = "opt" /\ vm.kind = "promoted" /\ vm.pass = 12

\* The node is a constant with an integer value.
IntegerConstant(n) ==
    (n.op = "CONST_NUM" /\ ~IsRecip(n.imm)) \/ n.op = "CONST_INT"

\* Node back of buf is ADD or SUB of the PHI i and an integer constant.
AddsIntegerStep(buf, i, back) ==
    LET bn == Node(buf, back)
    IN /\ bn.op \in {"ADD", "SUB"}
       /\ \/ bn.op1 = i /\ bn.op2 # IR_NONE
             /\ IntegerConstant(Node(buf, bn.op2))
          \/ bn.op2 = i /\ bn.op1 # IR_NONE
             /\ IntegerConstant(Node(buf, bn.op1))

\* C26: irOptIVTypeInference retypes a PHI as INT only if the PHI's pre-loop
\* operand is an integer-valued constant and its back-edge operand is an ADD
\* or SUB of that PHI and an integer step.
C26_PhiRetypedOnlyForIntegerInduction ==
    IVTypesInferred =>
        \A i \in 0..(Count(vm.prev) - 1) :
            (/\ Node(vm.prev, i).op = "PHI" /\ Node(vm.prev, i).type # "INT"
             /\ Node(vm.code, i).type = "INT")
                => /\ IntegerConstant(Node(vm.prev, Node(vm.prev, i).op1))
                   /\ AddsIntegerStep(vm.prev, i, Node(vm.prev, i).op2)



\* The bound check of an inlined iterate(_): GUARD_TRUE g on the boxed
\* comparison of iterator + step with the limit, under the snapshot of the
\* receiver's class guard c.
IsIterateBound(buf, c, g) ==
    /\ c < g
    /\ Node(buf, c).op = "GUARD_CLASS"
    /\ Node(buf, g).op = "GUARD_TRUE"
    /\ Node(buf, c).op2 = Node(buf, g).imm
    /\ NodeOr(buf, Node(buf, g).op1).op = "BOX_BOOL"
    /\ LET cmp == NodeOr(buf, NodeOr(buf, Node(buf, g).op1).op1)
       IN /\ cmp.op \in {"LTE", "LT", "GTE", "GT"}
          /\ NodeOr(buf, cmp.op1).op = "ADD"
          /\ NodeOr(buf, NodeOr(buf, cmp.op1).op2).op = "CONST_NUM"
          /\ NodeOr(buf, cmp.op2).op = "CONST_NUM"

IterateCmp(buf, g) == Node(buf, Node(buf, Node(buf, g).op1).op1)
IterateStep(buf, g) == Node(buf, Node(buf, IterateCmp(buf, g).op1).op2).imm
IterateLimit(buf, g) == Node(buf, IterateCmp(buf, g).op2).imm

\* The nodes of the trace that is executing.
RunningNodes ==
    IF lim.spec = "pipe" /\ vm.mode = "native"
    THEN 0..(Count(vm.code) - 1) ELSE {}

\* The trace has just passed the bound check g of an inlined iterate(_).
PassedIterateBound(c, g) ==
    /\ IsIterateBound(vm.code, c, g)
    /\ vm.npc = g + 1

\* The step, limit and comparison of the bound check are those of range.
IterateAgrees(buf, g, range) ==
    /\ (IterateStep(buf, g) = 1) = (range.v <= range.to)
    /\ IterateLimit(buf, g) = range.to
    /\ (IterateCmp(buf, g).op \in {"LTE", "GTE"}) = (range.incl = 1)

\* C29: a trace that continues past the bound check of an inlined
\* iterate(_) has advanced and checked the iterator with the direction,
\* `to` bound and inclusiveness of the range that is the receiver during
\* this execution of the trace.
C29_InlinedIterateFollowsRunTimeRange ==
    \A c \in RunningNodes, g \in RunningNodes :
        PassedIterateBound(c, g) =>
            LET recv == Reg(vm, Node(vm.code, c).op1)
            IN IS_RANGE(recv) /\ IterateAgrees(vm.code, g, recv)

======================================================================
